---- MODULE Spec2Model ----
(***************************************************************************)
(* State-machine model of the strFac_app crystallography viewer:           *)
(*   parseCIF.js                        - parseCifInfo                     *)
(*   performCrystallographicAnalysis.js - lattice builder, resolver,       *)
(*                                        performCrystallographicAnalysis  *)
(*   main.js                            - file load, Update button,        *)
(*                                        debounced plotly_relayout        *)
(*                                                                         *)
(* Text is modelled at token level.  A CIF file is a sequence of trimmed   *)
(* lines; a line is the sequence of its tokens (a quoted string is one     *)
(* token); the blank line is << >>.  A number read from text is << v >>    *)
(* (fixed point) or << >> (NaN / undefined): fractional coordinates are    *)
(* counted in units of 1/Q, cell parameters and plane indices in units of  *)
(* 1/S.  A number computed by the lattice kernel is a decimal floating-    *)
(* point number << m, e >> or NaN.                                         *)
(***************************************************************************)
EXTENDS Integers, Sequences, FiniteSets, TLC

VARIABLES
    currentParsedCifData,      \* main.js:180  the current crystal or Null
    debounceTimeoutForCamera,  \* main.js:181  handle of the last timer set, 0 = null
    currentCamera,             \* main.js:182  last camera state or Null
    timers,                    \* the browser's table of pending setTimeout callbacks
    nextTimerId,               \* the browser's timer-id counter
    listeners,                 \* number of plotly_relayout listeners on structureCanvas
    planeInput,                \* planeInput.value, a sequence of comma-separated fields
    messageDisplay,            \* the message sink: last [text, type] shown
    reading,                   \* files handed to a FileReader whose onload is still to come
    plots,                     \* what Plotly / CanvasJS currently display
    sinceEvent,                \* ms elapsed since the last camera event (capped)
    lastEye,                   \* history: eye vector of the last camera event
    parseFailed,               \* history: the last file read failed to parse
    generation,                \* history: number of crystals installed so far
    burstEvents,               \* history: camera events of the current burst
    burstRuns,                 \* history: debounced callbacks run since the burst began
    lastRun,                   \* history: record of the last handler run
    cifInfo,                   \* parser harness: the text handed to parseCifInfo
    parseResult,               \* parser harness: what parseCifInfo returned
    kernelInput,               \* kernel harness: the function called and its arguments
    kernelResult               \* kernel harness: what the function returned

appVars == << currentParsedCifData, debounceTimeoutForCamera, currentCamera, timers,
              nextTimerId, listeners, planeInput, messageDisplay, reading, plots,
              sinceEvent, lastEye, parseFailed, generation, burstEvents, burstRuns,
              lastRun >>
kernelVars == << kernelInput, kernelResult >>
harnessVars == << cifInfo, parseResult, kernelVars >>
vars == << appVars, harnessVars >>

(***************************************************************************)
(* Numbers                                                                 *)
(***************************************************************************)
NaN == << >>
Num(v) == << v >>
IsNaN(n) == n = NaN
Val(n) == n[1]

\* S is the factor 1000 by which the resolver scales h, k, l before rounding
\* them; the numbers read from text are kept as integers of that scale.  Q is
\* the number 1 of the wrap (v % 1 + 1) % 1 in units of a quarter: coordinates are integers
\* of quarters, for which every structure-factor phase is a multiple of 90
\* degrees.
S == 1000
Q == 4

Null == [null |-> TRUE]

Abs(v) == IF v < 0 THEN -v ELSE v

\* JavaScript %: the remainder takes the sign of the dividend
JSRem(v, m) == IF v >= 0 THEN v % Abs(m) ELSE -((-v) % Abs(m))

(***************************************************************************)
(* The doubles of the lattice kernel                                       *)
(*                                                                         *)
(* A number computed by performCrystallographicAnalysis.js is NaN or       *)
(* << m, e >>, the decimal floating-point number m * 10^e with eight       *)
(* significant digits (10^7 <= |m| < 10^8), zero being << 0, 0 >>.  Every   *)
(* operation rounds its exact result to eight digits, as the double        *)
(* operation rounds to 53 bits; the sign of zero is not kept.              *)
(***************************************************************************)
Pow10 == << 1, 10, 100, 1000, 10000, 100000, 1000000, 10000000, 100000000, 1000000000 >>

\* m / q rounded to the nearest integer, halves away from zero
HalfAway(m, q) == IF m < 0 THEN -((q \div 2 - m) \div q) ELSE (m + q \div 2) \div q

RECURSIVE Normal(_, _)
\* the number m * 10^e, rounded to eight significant digits; a mantissa of
\* fewer digits is shifted by the k digits that it lacks
Normal(m, e) ==
    IF m = 0 THEN << 0, 0 >>
    ELSE IF Abs(m) >= 100000000 THEN Normal(HalfAway(m, 10), e + 1)
    ELSE IF Abs(m) < 10000000
    THEN CHOOSE shifted \in
             { << m * Pow10[k + 1], e - k >> :
                 k \in { CHOOSE k \in 1..7 : /\ Abs(m) * Pow10[k + 1] >= 10000000
                                            /\ Abs(m) * Pow10[k] < 10000000 } } : TRUE
    ELSE << m, e >>

FloatZero == << 0, 0 >>

\* the double of the integer n
FromInt(n) == Normal(n, 0)

\* the double of a number read from text, kept in 1/S
Float(x) == IF IsNaN(x) THEN NaN ELSE Normal(Val(x), -3)

Neg(x) == IF IsNaN(x) THEN NaN ELSE << -x[1], x[2] >>

\* m1 * 10^e1 + m2 * 10^e2 for e1 >= e2: the smaller operand is aligned to
\* one digit below the larger one
Aligned(m1, e1, m2, e2) ==
    IF e1 = e2 THEN Normal(m1 + m2, e1)
    ELSE IF e1 - e2 > 10 THEN << m1, e1 >>
    ELSE Normal(m1 * 10 + HalfAway(m2, Pow10[e1 - e2]), e1 - 1)

\* x + y, of the values a and b of the operands
Add(x, y) ==
    CHOOSE sum \in
        { IF IsNaN(a) \/ IsNaN(b) THEN NaN
          ELSE IF a[1] = 0 THEN b
          ELSE IF b[1] = 0 THEN a
          ELSE IF a[2] >= b[2] THEN Aligned(a[1], a[2], b[1], b[2])
          ELSE Aligned(b[1], b[2], a[1], a[2]) : a \in { x }, b \in { y } } : TRUE

Sub(x, y) == Add(x, Neg(y))

\* the sixteen-digit product of the mantissas a and b, from their four-digit
\* halves, cut to nine digits
Wide(a, b) ==
    10 * ((a \div 10000) * (b \div 10000))
    + ((a \div 10000) * (b % 10000) + (a % 10000) * (b \div 10000)
       + ((a % 10000) * (b % 10000)) \div 10000) \div 1000

\* x * y, of the values a and b of the operands
Mul(x, y) ==
    CHOOSE product \in
        { IF IsNaN(a) \/ IsNaN(b) THEN NaN
          ELSE IF a[1] = 0 \/ b[1] = 0 THEN FloatZero
          ELSE Normal((IF (a[1] < 0) = (b[1] < 0) THEN 1 ELSE -1) * Wide(Abs(a[1]), Abs(b[1])),
                      a[2] + b[2] + 7) : a \in { x }, b \in { y } } : TRUE

RECURSIVE LongDiv(_, _, _, _)
\* n more decimal digits of the quotient q, remainder r, divisor d
LongDiv(q, r, d, n) ==
    IF n = 0 THEN q ELSE LongDiv(q * 10 + (r * 10) \div d, (r * 10) % d, d, n - 1)

\* x / y, of the values a and b of the operands.  x / 0 is +-Infinity or NaN
\* in JavaScript; every use below feeds it to a square root or a product with
\* 0, which yields NaN, so it is collapsed to NaN
Div(x, y) ==
    CHOOSE quotient \in
        { IF IsNaN(a) \/ IsNaN(b) \/ b = FloatZero THEN NaN
          ELSE IF a[1] = 0 THEN FloatZero
          ELSE Normal((IF (a[1] < 0) = (b[1] < 0) THEN 1 ELSE -1)
                          * (IF Abs(a[1]) < Abs(b[1]) THEN LongDiv(0, Abs(a[1]), Abs(b[1]), 9)
                             ELSE LongDiv(Abs(a[1]) \div Abs(b[1]), Abs(a[1]) % Abs(b[1]),
                                          Abs(b[1]), 8)),
                      a[2] - b[2] - (IF Abs(a[1]) < Abs(b[1]) THEN 9 ELSE 8)) :
            a \in { x }, b \in { y } } : TRUE

RECURSIVE ISqrtIn(_, _, _)
\* largest r in lo..hi with r * r <= n
ISqrtIn(n, lo, hi) ==
    IF lo >= hi THEN lo
    ELSE IF ((lo + hi + 1) \div 2) * ((lo + hi + 1) \div 2) <= n
         THEN ISqrtIn(n, (lo + hi + 1) \div 2, hi)
         ELSE ISqrtIn(n, lo, (lo + hi + 1) \div 2 - 1)

\* one Newton step from the estimate r of the square root of x
Newton(x, r) == Mul(Add(r, Div(x, r)), << 50000000, -8 >>)

\* Math.sqrt: NaN for a negative radicand; two Newton steps from the integer
\* root of the mantissa taken with an even exponent
Sqrt(x) ==
    CHOOSE root \in
        { IF IsNaN(a) \/ a[1] < 0 THEN NaN
          ELSE IF a[1] = 0 THEN FloatZero
          ELSE Newton(a, Newton(a, Normal(ISqrtIn(IF a[2] % 2 = 0 THEN a[1] ELSE a[1] * 10,
                                                  3162, 31623),
                                          (IF a[2] % 2 = 0 THEN a[2] ELSE a[2] - 1) \div 2))) :
            a \in { x } } : TRUE

\* Math.round(x) of a double below 10^9 in magnitude: the nearest integer,
\* halves toward +Infinity
Round(x) ==
    IF x[2] >= 0 THEN x[1] * Pow10[x[2] + 1]
    ELSE IF x[2] < -9 THEN 0
    ELSE (2 * x[1] + Pow10[1 - x[2]]) \div (2 * Pow10[1 - x[2]])

(***************************************************************************)
(* parseCIF.js : token vocabulary                                          *)
(***************************************************************************)
SYMMETRY_TAGS == << "_space_group_symop_operation_xyz",
                    "_symmetry_equiv_pos_as_xyz",
                    "_symmetry_equiv_pos_xyz" >>

CellTags == { "_cell_length_a", "_cell_length_b", "_cell_length_c",
              "_cell_angle_alpha", "_cell_angle_beta", "_cell_angle_gamma" }

\* tokens that start with "_atom_site_", with the text that follows the prefix
AtomSiteSuffix == [ t \in { "_atom_site_label", "_atom_site_type_symbol",
                            "_atom_site_fract_x", "_atom_site_fract_y",
                            "_atom_site_fract_z", "_atom_site_occupancy",
                            "_atom_site_aniso_label", "_atom_site_aniso_U_11",
                            "_atom_site_aniso_U_22", "_atom_site_aniso_U_33" } |->
    CASE t = "_atom_site_label"       -> "label"
      [] t = "_atom_site_type_symbol" -> "type_symbol"
      [] t = "_atom_site_fract_x"     -> "fract_x"
      [] t = "_atom_site_fract_y"     -> "fract_y"
      [] t = "_atom_site_fract_z"     -> "fract_z"
      [] t = "_atom_site_occupancy"   -> "occupancy"
      [] t = "_atom_site_aniso_label" -> "aniso_label"
      [] t = "_atom_site_aniso_U_22"  -> "aniso_U_22"
      [] t = "_atom_site_aniso_U_33"  -> "aniso_U_33"
      [] OTHER                        -> "aniso_U_11" ]

\* every token of the vocabulary that starts with "_"
UnderscoreTokens ==
    { SYMMETRY_TAGS[i] : i \in 1..Len(SYMMETRY_TAGS) } \cup CellTags \cup DOMAIN AtomSiteSuffix
    \cup { "_space_group_symop_id", "_symmetry_equiv_pos_site_id",
           "_space_group_name_H-M_alt", "_space_group_name_Hall",
           "_space_group_IT_number", "_chemical_formula_structural",
           "_atom_type_symbol", "_atom_type_oxidation_number" }

\* line.startsWith('_')
StartsWithUnderscore(line) == line # << >> /\ line[1] \in UnderscoreTokens
\* line.startsWith('_atom_site_')
StartsWithAtomSite(line) == line # << >> /\ line[1] \in DOMAIN AtomSiteSuffix
\* line.startsWith('#')
StartsWithHash(line) == line # << >> /\ line[1] = "#"
\* line.startsWith('loop_'), case-sensitive
StartsWithLoop(line) == line # << >> /\ line[1] = "loop_"
\* line.toLowerCase().startsWith('loop_')
StartsWithLoopAnyCase(line) == line # << >> /\ line[1] \in { "loop_", "LOOP_", "Loop_" }
\* line.toLowerCase() === 'loop_'
IsLoopAnyCase(line) == Len(line) = 1 /\ StartsWithLoopAnyCase(line)
\* line.trim() === ''
IsBlank(line) == line = << >>

\* a quoted token with blanks inside is several words for split(/\s+/)
Words(tok) ==
    CASE tok = "'x, y, z'"    -> << "'x,", "y,", "z'" >>
      [] tok = "'-x, -y, -z'" -> << "'-x,", "-y,", "-z'" >>
      [] OTHER                -> << tok >>

RECURSIVE SplitWhitespace(_)
\* line.split(/\s+/).filter(Boolean)
SplitWhitespace(line) ==
    IF line = << >> THEN << >> ELSE Words(Head(line)) \o SplitWhitespace(Tail(line))

(***************************************************************************)
(* parseCIF.js : what the string operations do on the vocabulary           *)
(***************************************************************************)
\* the text between the quotes of a quoted token
QuotedText ==
    [ t \in { "'x,y,z'", "'x, y, z'", "'-x,-y,-z'", "'-x, -y, -z'", "\"x,y,z\"",
              "'x+1/2,y+1/2,z'", "''", "'Fm-3m'", "'P 1'", "'NaCl'", "'Si'" } |->
      CASE t = "'x,y,z'"          -> "x,y,z"
        [] t = "'x, y, z'"        -> "x, y, z"
        [] t = "'-x,-y,-z'"       -> "-x,-y,-z"
        [] t = "'-x, -y, -z'"     -> "-x, -y, -z"
        [] t = "\"x,y,z\""        -> "x,y,z"
        [] t = "'x+1/2,y+1/2,z'"  -> "x+1/2,y+1/2,z"
        [] t = "''"               -> ""
        [] t = "'Fm-3m'"          -> "Fm-3m"
        [] t = "'P 1'"            -> "P 1"
        [] t = "'NaCl'"           -> "NaCl"
        [] OTHER                  -> "Si" ]

\* 'text' with at least one character between single quotes: '([^']+)'
IsSingleQuotedNonEmpty(t) == t \in DOMAIN QuotedText /\ t # "''" /\ t # "\"x,y,z\""

\* op.startsWith("'") && op.endsWith("'") || op.startsWith('"') && op.endsWith('"')
StripQuotes(op) == IF op \in DOMAIN QuotedText THEN QuotedText[op] ELSE op

\* opString.split(',').map(s => s.trim())
SplitComma(op) ==
    CASE op \in { "x,y,z", "x, y, z" }       -> << "x", "y", "z" >>
      [] op \in { "-x,-y,-z", "-x, -y, -z" } -> << "-x", "-y", "-z" >>
      [] op = "x+1/2,y+1/2,z"                -> << "x+1/2", "y+1/2", "z" >>
      [] op = "-y,x,z+1/4"                   -> << "-y", "x", "z+1/4" >>
      [] op = "x,y,z,w"                      -> << "x", "y", "z", "w" >>
      [] op = "x,y"                          -> << "x", "y" >>
      [] op = "x,,z"                         -> << "x", "", "z" >>
      [] op = "x,y,q"                        -> << "x", "y", "q" >>
      [] OTHER                               -> << op >>

\* the affine expressions of the vocabulary: sign * variable + shift / Q
Affine ==
    [ e \in { "x", "y", "z", "-x", "-y", "-z", "x+1/2", "y+1/2", "z+1/4" } |->
      CASE e = "x"     -> [var |-> "x", sign |-> 1,  shift |-> 0]
        [] e = "y"     -> [var |-> "y", sign |-> 1,  shift |-> 0]
        [] e = "z"     -> [var |-> "z", sign |-> 1,  shift |-> 0]
        [] e = "-x"    -> [var |-> "x", sign |-> -1, shift |-> 0]
        [] e = "-y"    -> [var |-> "y", sign |-> -1, shift |-> 0]
        [] e = "-z"    -> [var |-> "z", sign |-> -1, shift |-> 0]
        [] e = "x+1/2" -> [var |-> "x", sign |-> 1,  shift |-> 2]
        [] e = "y+1/2" -> [var |-> "y", sign |-> 1,  shift |-> 2]
        [] OTHER       -> [var |-> "z", sign |-> 1,  shift |-> 1] ]

\* Number(text) of the decimal literals of the vocabulary, in units of 1/Q
DecimalValue ==
    [ t \in { "0", "0.25", "0.5", "0.75", "1", "1.25", "-0.25", "2", "" } |->
      CASE t = "0"     -> 0
        [] t = "0.25"  -> 1
        [] t = "0.5"   -> 2
        [] t = "0.75"  -> 3
        [] t = "1"     -> 4
        [] t = "1.25"  -> 5
        [] t = "-0.25" -> -1
        [] t = "2"     -> 8
        [] OTHER       -> 0 ]

\* part.split('(')[0]
BeforeParen(t) ==
    CASE t = "0.5(2)"  -> "0.5"
      [] t = "0.25(1)" -> "0.25"
      [] t = "(3)"     -> ""
      [] OTHER         -> t

\* Number(part.split('(')[0])
CoordNumber(t) ==
    IF BeforeParen(t) \in DOMAIN DecimalValue THEN Num(DecimalValue[BeforeParen(t)]) ELSE NaN

\* math.evaluate(ops[k], scope): [ok, value], ok = FALSE when it throws.
\* opt is << >> for undefined (a missing component), which throws, else
\* << expr >>.  The empty expression evaluates to undefined, which the
\* arithmetic that follows turns into NaN.
MathEvaluate(opt, scope) ==
    LET expr == opt[1]
    IN  CASE opt = << >>                -> [ok |-> FALSE, value |-> NaN]
          [] opt = << "" >>             -> [ok |-> TRUE, value |-> NaN]
          [] opt # << >> /\ expr \in DOMAIN Affine ->
                [ok |-> TRUE,
                 value |-> Num(Affine[expr].sign * Val(scope[Affine[expr].var])
                               + Affine[expr].shift)]
          [] opt # << >> /\ expr \in DOMAIN DecimalValue ->
                [ok |-> TRUE, value |-> Num(DecimalValue[expr])]
          [] OTHER                      -> [ok |-> FALSE, value |-> NaN]

\* (v % 1 + 1) % 1
WrapUnit(n) == IF IsNaN(n) THEN NaN ELSE Num(JSRem(JSRem(Val(n), Q) + Q, Q))

\* label.match(/([A-Z][a-z]*)/): the first capital letter and the lower-case
\* letters after it, 'Unknown' without a capital letter.  The fallback on
\* element1 / element2 (label.includes) cannot succeed then, since both
\* start with a capital letter.
ElementOfLabel(label) ==
    CASE label \in { "Na1", "Na2", "Na" } -> "Na"
      [] label \in { "Cl1", "Cl" }        -> "Cl"
      [] label \in { "Si1", "Si" }        -> "Si"
      [] OTHER                            -> "Unknown"

\* the (symbol, count) pairs of a structural formula: /([A-Z][a-z]*)(\d*\.?\d*)/g
FormulaElements(f) ==
    CASE f = "NaCl"  -> << [element |-> "Na", number |-> 1], [element |-> "Cl", number |-> 1] >>
      [] f = "Si"    -> << [element |-> "Si", number |-> 1] >>
      [] f = "Fm-3m" -> << [element |-> "Fm", number |-> 1] >>
      [] f = "P 1"   -> << [element |-> "P", number |-> 1] >>
      [] OTHER       -> << >>

\* ([\d\.]+)(?:\(\d+\))? followed by parseFloat, in units of 1/S
CellNumber ==
    [ t \in { "0", "1", "2", "4", "5", "10", "5.0", "5.431(2)", "60", "90", "100", "120",
              "150", "90.00" } |->
      CASE t = "0"   -> 0          [] t = "1"   -> 1 * S    [] t = "2"  -> 2 * S
        [] t = "4"   -> 4 * S      [] t = "5"   -> 5 * S    [] t = "10" -> 10 * S
        [] t = "5.0" -> 5 * S      [] t = "60"  -> 60 * S   [] t = "90" -> 90 * S
        [] t = "100" -> 100 * S    [] t = "120" -> 120 * S  [] t = "90.00" -> 90 * S
        [] t = "150" -> 150 * S
        [] OTHER     -> 5431 ]

(***************************************************************************)
(* parseCIF.js : parseCifInfo                                              *)
(***************************************************************************)
\* cifInfo.match: the index of the first line of lines that is a hit, 0 when
\* there is none
FirstLine(lines, hits) ==
    IF \E i \in 1..Len(lines) : lines[i] \in hits
    THEN CHOOSE i \in 1..Len(lines) : lines[i] \in hits /\ \A k \in 1..(i - 1) : lines[k] \notin hits
    ELSE 0

\* cifInfo.match(/<tag>\s+'([^']+)'/): the quoted value that follows the tag
QuotedField(lines, tag) ==
    LET Hit(l) == Len(l) >= 2 /\ l[1] = tag /\ IsSingleQuotedNonEmpty(l[2])
        i == FirstLine(lines, { lines[k] : k \in { j \in 1..Len(lines) : Hit(lines[j]) } })
    IN  IF i = 0 THEN Null ELSE [text |-> QuotedText[lines[i][2]]]

spaceGroupName(lines) ==
    LET alt  == QuotedField(lines, "_space_group_name_H-M_alt")
        hall == QuotedField(lines, "_space_group_name_Hall")
    IN  IF alt # Null THEN alt.text ELSE IF hall # Null THEN hall.text ELSE "N/A"

chemicalComponents(lines) ==
    LET f == QuotedField(lines, "_chemical_formula_structural")
    IN  IF f = Null THEN << >> ELSE FormulaElements(f.text)

\* parseCellParam(tag): NaN stands for undefined
parseCellParam(lines, tag) ==
    LET Hit(l) == Len(l) >= 2 /\ l[1] = tag /\ l[2] \in DOMAIN CellNumber
        i == FirstLine(lines, { lines[k] : k \in { j \in 1..Len(lines) : Hit(lines[j]) } })
    IN  IF i = 0 THEN NaN ELSE Num(CellNumber[lines[i][2]])

cellParameters(lines) ==
    [ a     |-> parseCellParam(lines, "_cell_length_a"),
      b     |-> parseCellParam(lines, "_cell_length_b"),
      c     |-> parseCellParam(lines, "_cell_length_c"),
      alpha |-> parseCellParam(lines, "_cell_angle_alpha"),
      beta  |-> parseCellParam(lines, "_cell_angle_beta"),
      gamma |-> parseCellParam(lines, "_cell_angle_gamma") ]

\* tags.indexOf(x), 1-based, 0 for -1
IndexOf(seq, x) ==
    IF \E i \in 1..Len(seq) : seq[i] = x
    THEN CHOOSE i \in 1..Len(seq) : seq[i] = x /\ \A k \in 1..(i - 1) : seq[k] # x
    ELSE 0

RECURSIVE TagRun(_, _)
\* the lines from j on that start with "_", up to the first that does not
TagRun(lines, j) ==
    IF j <= Len(lines) /\ StartsWithUnderscore(lines[j])
    THEN << lines[j] >> \o TagRun(lines, j + 1)
    ELSE << >>

\* for (const tag of SYMMETRY_TAGS): the first recognized tag declared in tags
FirstSymmetryTag(tags) ==
    IF \E t \in 1..Len(SYMMETRY_TAGS) : IndexOf(tags, << SYMMETRY_TAGS[t] >>) # 0
    THEN CHOOSE t \in 1..Len(SYMMETRY_TAGS) :
            /\ IndexOf(tags, << SYMMETRY_TAGS[t] >>) # 0
            /\ \A u \in 1..(t - 1) : IndexOf(tags, << SYMMETRY_TAGS[u] >>) = 0
    ELSE 0

\* the search of lines 128-150: the first loop_ of the whole text whose
\* declared tags include a recognized symmetry tag
symmetryLoopStartIndex(lines) ==
    LET Found(i) == IsLoopAnyCase(lines[i]) /\ FirstSymmetryTag(TagRun(lines, i + 1)) # 0
    IN  IF \E i \in 1..Len(lines) : Found(i)
        THEN CHOOSE i \in 1..Len(lines) : Found(i) /\ \A k \in 1..(i - 1) : ~Found(k)
        ELSE 0

\* the operation taken from the first column, wherever its tag is declared
symmetryTagIndexFirstColumn(lines) == 1

symmetryTagIndex(lines) ==
    LET Of(tags) == IndexOf(tags, << SYMMETRY_TAGS[FirstSymmetryTag(tags)] >>)
    IN  Of(TagRun(lines, symmetryLoopStartIndex(lines) + 1))

RECURSIVE SymmetryDataLines(_, _)
\* lines 154-160: tag lines are skipped; loop_, a comment or a blank line ends the data
SymmetryDataLines(lines, i) ==
    IF i > Len(lines) THEN << >>
    ELSE IF StartsWithUnderscore(lines[i]) THEN SymmetryDataLines(lines, i + 1)
    ELSE IF StartsWithLoopAnyCase(lines[i]) \/ StartsWithHash(lines[i]) \/ IsBlank(lines[i])
         THEN << >>
    ELSE << lines[i] >> \o SymmetryDataLines(lines, i + 1)

RECURSIVE OperationsOf(_, _)
\* lines 162-176: the token at the tag's position of every data line
OperationsOf(dataLines, tagIndex) ==
    IF dataLines = << >> THEN << >>
    ELSE LET parts == Head(dataLines)
             op    == StripQuotes(parts[tagIndex])
         IN  (IF Len(parts) >= tagIndex /\ op # "" THEN << op >> ELSE << >>)
             \o OperationsOf(Tail(dataLines), tagIndex)

\* the operations without the default of lines 179-182
symmetryOperationsNoDefault(lines) ==
    LET Of(start) ==
            IF start = 0 THEN << >>
            ELSE OperationsOf(SymmetryDataLines(lines, start + 1), symmetryTagIndex(lines))
    IN  Of(symmetryLoopStartIndex(lines))

\* lines 115-182: the operations of the symmetry loop, the identity when
\* there is none
symmetryOperations(lines) ==
    LET Defaulted(found) == IF found = << >> THEN << "x,y,z" >> ELSE found
        Of(start) ==
            Defaulted(IF start = 0 THEN << >>
                      ELSE OperationsOf(SymmetryDataLines(lines, start + 1),
                                        symmetryTagIndex(lines)))
    IN  Of(symmetryLoopStartIndex(lines))

\* lines 189-199: the first line that is exactly loop_ and has a line
\* starting with _atom_site_ among the nine lines after it; 0 for -1
atomSiteLoopStart(lines) ==
    LET Min(x, y) == IF x < y THEN x ELSE y
        Found(i) == /\ lines[i] = << "loop_" >>
                    /\ \E j \in (i + 1)..Min(i + 9, Len(lines)) : StartsWithAtomSite(lines[j])
    IN  IF \E i \in 1..Len(lines) : Found(i)
        THEN CHOOSE i \in 1..Len(lines) : Found(i) /\ \A k \in 1..(i - 1) : ~Found(k)
        ELSE 0

\* line.replace('_atom_site_', '').trim()
AtomSiteLabel(line) == IF Len(line) = 1 THEN AtomSiteSuffix[line[1]] ELSE "?"

RECURSIVE AtomSiteHeader(_, _, _)
\* lines 212-221: collects the column labels and finds the first line after
\* them that is neither a comment nor a loop_ line (dataStartsIndex, 0 for -1)
AtomSiteHeader(lines, i, labels) ==
    IF i > Len(lines) THEN [labels |-> labels, dataStartsIndex |-> 0]
    ELSE IF StartsWithAtomSite(lines[i])
         THEN AtomSiteHeader(lines, i + 1, Append(labels, AtomSiteLabel(lines[i])))
    ELSE IF labels # << >> /\ ~StartsWithHash(lines[i]) /\ ~StartsWithLoop(lines[i])
         THEN [labels |-> labels, dataStartsIndex |-> i]
    ELSE AtomSiteHeader(lines, i + 1, labels)

\* a filter that also drops the rows with fewer than four fields
atomDataLinesFullRowsOnly(lines, dataStartsIndex) ==
    LET Keep(l) == /\ ~StartsWithHash(l) /\ ~StartsWithUnderscore(l)
                   /\ ~StartsWithLoop(l) /\ ~IsBlank(l) /\ Len(l) >= 4
    IN  SelectSeq(SubSeq(lines, dataStartsIndex, Len(lines)), Keep)

\* line 242: everything from dataStartsIndex to the end of the text that is
\* not a comment, a tag, a loop_ line or blank
atomDataLines(lines, dataStartsIndex) ==
    LET Keep(l) == /\ ~StartsWithHash(l) /\ ~StartsWithUnderscore(l)
                   /\ ~StartsWithLoop(l) /\ ~IsBlank(l)
    IN  SelectSeq(SubSeq(lines, dataStartsIndex, Len(lines)), Keep)

\* a reading of a data line that takes a coordinate that is not a number as 0
AtomRowZeroFill(line, xIndex, yIndex, zIndex, labelIndex) ==
    LET parts == SplitWhitespace(line)
        Max3  == IF xIndex >= yIndex /\ xIndex >= zIndex THEN xIndex
                 ELSE IF yIndex >= zIndex THEN yIndex ELSE zIndex
        currentAtomLabel == IF labelIndex # 0 /\ Len(parts) >= labelIndex
                            THEN parts[labelIndex] ELSE parts[1]
        Coord(t) == IF IsNaN(CoordNumber(t)) THEN Num(0) ELSE CoordNumber(t)
    IN  IF Len(parts) < Max3 THEN << >>
        ELSE << [label |-> currentAtomLabel, x |-> Coord(parts[xIndex]),
                 y |-> Coord(parts[yIndex]), z |-> Coord(parts[zIndex])] >>

\* a reading of a data line that takes the label from the first field and
\* the coordinates from the three fields after it, whatever the tags say
AtomRowByPosition(line, xIndex, yIndex, zIndex, labelIndex) ==
    LET parts == SplitWhitespace(line)
        x == CoordNumber(parts[2])
        y == CoordNumber(parts[3])
        z == CoordNumber(parts[4])
    IN  IF Len(parts) < 4 THEN << >>
        ELSE IF IsNaN(x) \/ IsNaN(y) \/ IsNaN(z) THEN << >>
        ELSE << [label |-> parts[1], x |-> x, y |-> y, z |-> z] >>

\* lines 250-271 for one data line: << >> when the line is skipped, else the
\* one-element sequence with its label and original coordinates
AtomRow(line, xIndex, yIndex, zIndex, labelIndex) ==
    LET parts == SplitWhitespace(line)
        Max3  == IF xIndex >= yIndex /\ xIndex >= zIndex THEN xIndex
                 ELSE IF yIndex >= zIndex THEN yIndex ELSE zIndex
        currentAtomLabel == IF labelIndex # 0 /\ Len(parts) >= labelIndex
                            THEN parts[labelIndex] ELSE parts[1]
        x == CoordNumber(parts[xIndex])
        y == CoordNumber(parts[yIndex])
        z == CoordNumber(parts[zIndex])
    IN  IF Len(parts) < Max3 THEN << >>
        ELSE IF IsNaN(x) \/ IsNaN(y) \/ IsNaN(z) THEN << >>
        ELSE << [label |-> currentAtomLabel, x |-> x, y |-> y, z |-> z] >>

\* an expansion that pushes an entry without coordinates for a pair whose
\* evaluation throws
ApplyOperationPlaceholder(row, opString) ==
    LET scope == [x |-> row.x, y |-> row.y, z |-> row.z]
        ops   == SplitComma(opString)
        Op(k) == IF k <= Len(ops) THEN << ops[k] >> ELSE << >>
        x_new == MathEvaluate(Op(1), scope)
        y_new == MathEvaluate(Op(2), scope)
        z_new == MathEvaluate(Op(3), scope)
    IN  IF ~x_new.ok \/ ~y_new.ok \/ ~z_new.ok
        THEN << [ x |-> NaN, y |-> NaN, z |-> NaN, label |-> ElementOfLabel(row.label) ] >>
        ELSE << [ x |-> WrapUnit(x_new.value), y |-> WrapUnit(y_new.value),
                  z |-> WrapUnit(z_new.value), label |-> ElementOfLabel(row.label) ] >>

\* lines 286-311 for one (row, operation) pair: << >> when the evaluation
\* throws, else the one wrapped position
ApplyOperation(row, opString) ==
    LET scope == [x |-> row.x, y |-> row.y, z |-> row.z]
        ops   == SplitComma(opString)
        Op(k) == IF k <= Len(ops) THEN << ops[k] >> ELSE << >>
        x_new == MathEvaluate(Op(1), scope)
        y_new == MathEvaluate(Op(2), scope)
        z_new == MathEvaluate(Op(3), scope)
    IN  IF ~x_new.ok \/ ~y_new.ok \/ ~z_new.ok THEN << >>
        ELSE << [ x |-> WrapUnit(x_new.value), y |-> WrapUnit(y_new.value),
                  z |-> WrapUnit(z_new.value), label |-> ElementOfLabel(row.label) ] >>

RECURSIVE ApplyOperations(_, _)
\* symmetryOperations.forEach
ApplyOperations(row, operations) ==
    IF operations = << >> THEN << >>
    ELSE ApplyOperation(row, Head(operations)) \o ApplyOperations(row, Tail(operations))

RECURSIVE ExpandRows(_, _, _, _, _, _)
\* lines 249-315: the loop over atomDataLines
ExpandRows(dataLines, xIndex, yIndex, zIndex, labelIndex, operations) ==
    IF dataLines = << >> THEN << >>
    ELSE LET row == AtomRow(Head(dataLines), xIndex, yIndex, zIndex, labelIndex)
         IN  (IF row = << >> THEN << >> ELSE ApplyOperations(row[1], operations))
             \o ExpandRows(Tail(dataLines), xIndex, yIndex, zIndex, labelIndex, operations)

\* /_space_group_IT_number\s+(\d+)/ and parseInt
spaceGroupNumber(lines) ==
    LET Hit(l) == Len(l) >= 2 /\ l[1] = "_space_group_IT_number" /\ l[2] \in { "1", "2", "225" }
        i == FirstLine(lines, { lines[k] : k \in { j \in 1..Len(lines) : Hit(lines[j]) } })
    IN  IF i = 0 THEN "N/A" ELSE lines[i][2]

\* parseCifInfo(cifInfo): Null or the parsed crystal
parseCifInfo(lines) ==
    LET Crystal(header, xIndex, yIndex, zIndex, labelIndex, rows) ==
            IF header.dataStartsIndex = 0 THEN Null
            ELSE IF xIndex = 0 \/ yIndex = 0 \/ zIndex = 0 THEN Null
            ELSE IF rows = << >> THEN Null
            ELSE [ cellParameters     |-> cellParameters(lines),
                   chemicalComponents |-> chemicalComponents(lines),
                   atomPositions      |-> ExpandRows(rows, xIndex, yIndex, zIndex, labelIndex,
                                                     symmetryOperations(lines)),
                   spaceGroupName     |-> spaceGroupName(lines),
                   spaceGroupNumber   |-> spaceGroupNumber(lines) ]
        WithHeader(header) ==
            Crystal(header, IndexOf(header.labels, "fract_x"), IndexOf(header.labels, "fract_y"),
                    IndexOf(header.labels, "fract_z"), IndexOf(header.labels, "label"),
                    atomDataLines(lines, header.dataStartsIndex))
        WithStart(start) ==
            IF start = 0 THEN Null ELSE WithHeader(AtomSiteHeader(lines, start, << >>))
    IN  WithStart(atomSiteLoopStart(lines))

(***************************************************************************)
(* performCrystallographicAnalysis.js : linear-algebra kernel and lattice  *)
(***************************************************************************)
\* the angles (in 1/S degrees) a cell parameter of the vocabulary can take
Degrees == { 0, 1 * S, 2 * S, 4 * S, 5 * S, 5431, 10 * S, 60 * S, 90 * S, 100 * S,
             120 * S, 150 * S }

\* Math.cos(angle * Math.PI / 180): the double to eight digits.  The double
\* nearest to cos(90 degrees) is 6.1e-17, not 0.
CosDeg(angle) ==
    IF IsNaN(angle) THEN NaN
    ELSE LET d == Val(angle)
         IN  CASE d = 0       -> << 10000000, -7 >>   [] d = 1 * S   -> << 99984770, -8 >>
               [] d = 2 * S   -> << 99939083, -8 >>   [] d = 4 * S   -> << 99756405, -8 >>
               [] d = 5 * S   -> << 99619470, -8 >>   [] d = 5431    -> << 99551090, -8 >>
               [] d = 10 * S  -> << 98480775, -8 >>   [] d = 60 * S  -> << 50000000, -8 >>
               [] d = 90 * S  -> << 61232340, -24 >>  [] d = 100 * S -> << -17364818, -8 >>
               [] d = 120 * S -> << -50000000, -8 >>  [] d = 150 * S -> << -86602540, -8 >>

\* Math.sin(angle * Math.PI / 180)
SinDeg(angle) ==
    IF IsNaN(angle) THEN NaN
    ELSE LET d == Val(angle)
         IN  CASE d = 0       -> << 0, 0 >>           [] d = 1 * S   -> << 17452406, -9 >>
               [] d = 2 * S   -> << 34899497, -9 >>   [] d = 4 * S   -> << 69756474, -9 >>
               [] d = 5 * S   -> << 87155743, -9 >>   [] d = 5431    -> << 94646950, -9 >>
               [] d = 10 * S  -> << 17364818, -8 >>   [] d = 60 * S  -> << 86602540, -8 >>
               [] d = 90 * S  -> << 10000000, -7 >>   [] d = 100 * S -> << 98480775, -8 >>
               [] d = 120 * S -> << 86602540, -8 >>   [] d = 150 * S -> << 50000000, -8 >>

\* Math.sin(angle): the sine of the number of degrees taken as radians
SinRaw(angle) ==
    IF IsNaN(angle) THEN NaN
    ELSE LET d == Val(angle)
         IN  CASE d = 0       -> << 0, 0 >>           [] d = 1 * S   -> << 84147099, -8 >>
               [] d = 2 * S   -> << 90929743, -8 >>   [] d = 4 * S   -> << -75680250, -8 >>
               [] d = 5 * S   -> << -95892428, -8 >>  [] d = 5431    -> << -75272088, -8 >>
               [] d = 10 * S  -> << -54402111, -8 >>  [] d = 60 * S  -> << -30481062, -8 >>
               [] d = 90 * S  -> << 89399666, -8 >>   [] d = 100 * S -> << -50636564, -8 >>
               [] d = 120 * S -> << 58061118, -8 >>   [] d = 150 * S -> << -71487643, -8 >>

Zero == Num(0)

crossProduct(v1, v2) ==
    << Sub(Mul(v1[2], v2[3]), Mul(v1[3], v2[2])),
       Sub(Mul(v1[3], v2[1]), Mul(v1[1], v2[3])),
       Sub(Mul(v1[1], v2[2]), Mul(v1[2], v2[1])) >>

dotProduct(v1, v2) == Add(Add(Mul(v1[1], v2[1]), Mul(v1[2], v2[2])), Mul(v1[3], v2[3]))

HasNaN(v) == \E i \in 1..Len(v) : IsNaN(v[i])

\* line 379: c * Math.cos(betaRad)
c_x(cell) == Mul(Float(cell.c), CosDeg(cell.beta))

\* line 380: the sine is taken of gamma in degrees
c_y(cell) ==
    Div(Mul(Float(cell.c), Sub(CosDeg(cell.alpha), Mul(CosDeg(cell.beta), CosDeg(cell.gamma)))),
        SinRaw(cell.gamma))

\* getDirectLatticeVectors(cellParameters)
getDirectLatticeVectors(cell) ==
    << << Float(cell.a), FloatZero, FloatZero >>,
       << Mul(Float(cell.b), CosDeg(cell.gamma)), Mul(Float(cell.b), SinDeg(cell.gamma)),
          FloatZero >>,
       << c_x(cell), c_y(cell),
          Sqrt(Sub(Sub(Mul(Float(cell.c), Float(cell.c)), Mul(c_x(cell), c_x(cell))),
                   Mul(c_y(cell), c_y(cell)))) >> >>

\* reciprocal vectors left undivided by the volume
getReciprocalLatticeVectorsUnscaled(direct) ==
    IF dotProduct(direct[1], crossProduct(direct[2], direct[3])) = FloatZero THEN Null
    ELSE << crossProduct(direct[2], direct[3]), crossProduct(direct[3], direct[1]),
            crossProduct(direct[1], direct[2]) >>

\* lines 396-408: the three cross products over the volume, Null when the
\* volume is exactly 0
StarVectors(bCrossC, cCrossA, aCrossB, vol) ==
    IF vol = FloatZero THEN Null
    ELSE << << Div(bCrossC[1], vol), Div(bCrossC[2], vol), Div(bCrossC[3], vol) >>,
            << Div(cCrossA[1], vol), Div(cCrossA[2], vol), Div(cCrossA[3], vol) >>,
            << Div(aCrossB[1], vol), Div(aCrossB[2], vol), Div(aCrossB[3], vol) >> >>

\* getReciprocalLatticeVectors(direct): Null when the volume is exactly 0
getReciprocalLatticeVectors(direct) ==
    StarVectors(crossProduct(direct[2], direct[3]), crossProduct(direct[3], direct[1]),
                crossProduct(direct[1], direct[2]),
                dotProduct(direct[1], crossProduct(direct[2], direct[3])))

\* lines 318-320: the direct and the reciprocal vectors of a cell; the
\* reciprocal vectors are computed from the direct vectors once these are known
LatticeOf(cell) ==
    CHOOSE lattice \in { [ direct |-> direct,
                           reciprocal |-> getReciprocalLatticeVectors(direct) ] :
                         direct \in { getDirectLatticeVectors(cell) } } : TRUE

\* p * q - r * t, a 2x2 minor of lines 350 and 359-361
Minor(p, q, r, t) == Sub(Mul(p, q), Mul(r, t))

\* line 350: the determinant of m
Determinant(m) ==
    Add(Sub(Mul(m[1][1], Minor(m[2][2], m[3][3], m[2][3], m[3][2])),
            Mul(m[1][2], Minor(m[2][1], m[3][3], m[2][3], m[3][1]))),
        Mul(m[1][3], Minor(m[2][1], m[3][2], m[2][2], m[3][1])))

\* lines 358-362: the adjugate of m, each entry times invDet
Adjugate(m, invDet) ==
    << << Mul(Minor(m[2][2], m[3][3], m[2][3], m[3][2]), invDet),
          Mul(Minor(m[1][3], m[3][2], m[1][2], m[3][3]), invDet),
          Mul(Minor(m[1][2], m[2][3], m[1][3], m[2][2]), invDet) >>,
       << Mul(Minor(m[2][3], m[3][1], m[2][1], m[3][3]), invDet),
          Mul(Minor(m[1][1], m[3][3], m[1][3], m[3][1]), invDet),
          Mul(Minor(m[1][3], m[2][1], m[1][1], m[2][3]), invDet) >>,
       << Mul(Minor(m[2][1], m[3][2], m[2][2], m[3][1]), invDet),
          Mul(Minor(m[1][2], m[3][1], m[1][1], m[3][2]), invDet),
          Mul(Minor(m[1][1], m[2][2], m[1][2], m[2][1]), invDet) >> >>

\* matrixInverse3x3(m): Null when the determinant is exactly 0
matrixInverse3x3(m) ==
    CHOOSE inverse \in
        { IF det = FloatZero THEN Null ELSE Adjugate(m, Div(FromInt(1), det)) :
            det \in { Determinant(m) } } : TRUE

\* normalizeVector(v)
normalizeVector(v) ==
    CHOOSE normalized \in
        { IF magnitude = FloatZero THEN << FloatZero, FloatZero, FloatZero >>
          ELSE << Div(w[1], magnitude), Div(w[2], magnitude), Div(w[3], magnitude) >> :
            w \in { v },
            magnitude \in { Sqrt(Add(Add(Add(FloatZero, Mul(u[1], u[1])), Mul(u[2], u[2])),
                                     Mul(u[3], u[3]))) : u \in { v } } } : TRUE

\* lines 566-570: the reciprocal lattice vector normal to the plane zoneAxis
g_hkl(zoneAxis, recip) ==
    LET Component(i) == Add(Add(Mul(Float(zoneAxis[1]), recip[1][i]),
                                Mul(Float(zoneAxis[2]), recip[2][i])),
                            Mul(Float(zoneAxis[3]), recip[3][i]))
    IN  << Component(1), Component(2), Component(3) >>

\* multiplyMatrices(m, [[v0], [v1], [v2]]): the column m * v
MatrixTimesVector(m, v) ==
    << Add(Add(Add(FloatZero, Mul(m[1][1], v[1])), Mul(m[1][2], v[2])), Mul(m[1][3], v[3])),
       Add(Add(Add(FloatZero, Mul(m[2][1], v[1])), Mul(m[2][2], v[2])), Mul(m[2][3], v[3])),
       Add(Add(Add(FloatZero, Mul(m[3][1], v[1])), Mul(m[3][2], v[2])), Mul(m[3][3], v[3])) >>

(***************************************************************************)
(* performCrystallographicAnalysis.js : camera -> Miller-index resolver    *)
(***************************************************************************)
RECURSIVE GcdLoop(_, _)
\* mathjs gcd on integers: Euclid with the JavaScript remainder, then |a|
GcdLoop(a, b) == IF b = 0 THEN Abs(a) ELSE GcdLoop(b, JSRem(a, b))

\* math.gcd(a, b): throws for an argument that is not an integer (NaN)
MathGcd(a, b) ==
    IF IsNaN(a) \/ IsNaN(b) THEN [ok |-> FALSE, value |-> NaN]
    ELSE [ok |-> TRUE, value |-> Num(GcdLoop(Val(a), Val(b)))]

\* The quotients h / d whose decimal value is an integer and a half and
\* whose double lies just below it, among the operands used here: the double
\* nearest to 0.001 lies above 0.001, and 0.0215 / 0.001 is the double
\* 21.499999999999996, 0.0255 / 0.001 is 25.499999999999996; 0.0225 / 0.001
\* and 0.0015 / 0.001 are the doubles 22.5 and 1.5.
BelowHalf ==
    { << << 21500000, -9 >>, << 10000000, -10 >> >>,
      << << 25500000, -9 >>, << 10000000, -10 >> >> }

\* Math.round(h / d)
RoundQuotient(h, d) ==
    IF << h, d >> \in BelowHalf THEN Round(Div(h, d)) - 1 ELSE Round(Div(h, d))

\* getMillerIndicesFromCamera(cameraEye, direct, reciprocal):
\* [kind |-> "hkl", hkl |-> <<h, k, l>>], [kind |-> "null"] or [kind |-> "throw"].
\* Math.abs(h) < tolerance is false for NaN, which stays.
getMillerIndicesFromCamera(cameraEye, direct, reciprocal) ==
    LET tolerance == Normal(1, -6)
        Cleared(x) ==
            IF ~IsNaN(x) /\ Sub(<< Abs(x[1]), x[2] >>, tolerance)[1] < 0
            THEN FloatZero ELSE x
        Scaled(x) == IF IsNaN(x) THEN NaN ELSE Num(Round(Mul(x, FromInt(S))))
        Signed(h_int, k_int, l_int) ==
            IF h_int < 0 \/ (h_int = 0 /\ k_int < 0) \/ (h_int = 0 /\ k_int = 0 /\ l_int < 0)
            THEN [kind |-> "hkl", hkl |-> << -h_int, -k_int, -l_int >>]
            ELSE [kind |-> "hkl", hkl |-> << h_int, k_int, l_int >>]
        Divided(h, k, l, d) ==
            Signed(RoundQuotient(h, d), RoundQuotient(k, d), RoundQuotient(l, d))
        Normalized(h, k, l, commonDivisor) ==
            IF ~commonDivisor.ok THEN [kind |-> "throw"]
            ELSE IF Val(commonDivisor.value) = 0 THEN [kind |-> "hkl", hkl |-> << 0, 0, 0 >>]
            ELSE Divided(h, k, l, Div(FromInt(Val(commonDivisor.value)), FromInt(S)))
        Gcd3(first, third) ==
            IF ~first.ok THEN first ELSE MathGcd(first.value, third)
        OfCleared(h, k, l) ==
            IF h = FloatZero /\ k = FloatZero /\ l = FloatZero
            THEN [kind |-> "hkl", hkl |-> << 0, 0, 0 >>]
            ELSE Normalized(h, k, l, Gcd3(MathGcd(Scaled(h), Scaled(k)), Scaled(l)))
        OfFloat(hkl_float) ==
            OfCleared(Cleared(hkl_float[1]), Cleared(hkl_float[2]), Cleared(hkl_float[3]))
        OfInverse(inv, eye) ==
            IF inv = Null THEN [kind |-> "null"]
            ELSE CHOOSE miller \in { OfFloat(hkl_float) :
                                       hkl_float \in { MatrixTimesVector(inv, eye) } } : TRUE
        Transposed(m) ==
            << << m[1][1], m[2][1], m[3][1] >>, << m[1][2], m[2][2], m[3][2] >>,
               << m[1][3], m[2][3], m[3][3] >> >>
    IN  CHOOSE miller \in
            { OfInverse(inv, eye) :
                eye \in { cameraEye },
                inv \in { matrixInverse3x3(m) : m \in { Transposed(reciprocal) } } } : TRUE

(***************************************************************************)
(* Strings of integers: `${h},${k},${l}` and split(',').map(Number)        *)
(***************************************************************************)
DigitChar == << "0", "1", "2", "3", "4", "5", "6", "7", "8", "9" >>

RECURSIVE NatString(_)
NatString(n) == IF n < 10 THEN DigitChar[n + 1]
                ELSE NatString(n \div 10) \o DigitChar[(n % 10) + 1]

\* `${n}` for an integer n
IntString(n) == IF n < 0 THEN "-" \o NatString(-n) ELSE NatString(n)

\* the integers whose decimal strings Number() is asked to read
MaxIndex == 12

\* Number(field), in 1/S, for one comma-separated field of a plane string
FieldNumber(field) ==
    CASE field = ""    -> Zero
      [] field = "1.5" -> Num(1500)
      [] field = "110" -> Num(110 * S)
      [] field = "210" -> Num(210 * S)
      [] \E n \in (-MaxIndex)..MaxIndex : IntString(n) = field ->
            Num(S * (CHOOSE n \in (-MaxIndex)..MaxIndex : IntString(n) = field))
      [] OTHER         -> NaN

(***************************************************************************)
(* performCrystallographicAnalysis.js : performCrystallographicAnalysis    *)
(***************************************************************************)
Msg(text, type) == [text |-> text, type |-> type]

MissingDataMsg ==
    Msg("Missing essential data for crystallographic analysis (atoms or cell parameters). Please upload a valid CIF file.", "error")
ReciprocalFailedMsg ==
    Msg("Failed to calculate reciprocal lattice vectors. Check console for details.", "error")

\* k_max of line 526
k_max == 1

\* !x for a number: undefined, NaN and 0 are falsy
Falsy(x) == IsNaN(x) \/ x = Zero

\* Math.ceil(k_max / dotProduct(v, v) ** 0.5): NaN for a NaN vector
IndexRange(v) ==
    LET Ceil(x) ==
            IF x[2] >= 0 THEN x[1] * Pow10[x[2] + 1]
            ELSE IF x[2] < -9 THEN (IF x[1] > 0 THEN 1 ELSE 0)
            ELSE -((-x[1]) \div Pow10[1 - x[2]])
        Of(range) == IF IsNaN(range) THEN NaN ELSE Num(Ceil(range))
    IN  Of(Div(FromInt(k_max), Sqrt(dotProduct(v, v))))

\* Math.cos(2 * Math.PI * (n / 4)) and Math.sin(2 * Math.PI * (n / 4)) for
\* n = -12 .. 12: the cosine and the sine that lines 545-546 take of an angle
\* of n quarter turns
CosTable ==
    << << 10000000, -7 >>, << -24499126, -22 >>, << -10000000, -7 >>, << 55109106, -23 >>,
       << 10000000, -7 >>, << -42862638, -23 >>, << -10000000, -7 >>, << 30616170, -23 >>,
       << 10000000, -7 >>, << -18369702, -23 >>, << -10000000, -7 >>, << 61232340, -24 >>,
       << 10000000, -7 >>, << 61232340, -24 >>, << -10000000, -7 >>, << -18369702, -23 >>,
       << 10000000, -7 >>, << 30616170, -23 >>, << -10000000, -7 >>, << -42862638, -23 >>,
       << 10000000, -7 >>, << 55109106, -23 >>, << -10000000, -7 >>, << -24499126, -22 >>,
       << 10000000, -7 >> >>
SinTable ==
    << << 73478808, -23 >>, << 10000000, -7 >>, << -61232340, -23 >>, << -10000000, -7 >>,
       << 48985872, -23 >>, << 10000000, -7 >>, << -36739404, -23 >>, << -10000000, -7 >>,
       << 24492936, -23 >>, << 10000000, -7 >>, << -12246468, -23 >>, << -10000000, -7 >>,
       << 0, 0 >>, << 10000000, -7 >>, << 12246468, -23 >>, << -10000000, -7 >>,
       << -24492936, -23 >>, << 10000000, -7 >>, << 36739404, -23 >>, << -10000000, -7 >>,
       << -48985872, -23 >>, << 10000000, -7 >>, << 61232340, -23 >>, << -10000000, -7 >>,
       << -73478808, -23 >> >>

\* an angle taken with the magnitude of h
angleOfAbs(h, k, l, atom) ==
    IF IsNaN(atom.x) \/ IsNaN(atom.y) \/ IsNaN(atom.z) THEN NaN
    ELSE Num(Abs(h) * Val(atom.x) + k * Val(atom.y) + l * Val(atom.z))

\* line 544: the angle 2 * Math.PI * (h * atom.x + k * atom.y + l * atom.z), in
\* quarter turns
angle(h, k, l, atom) ==
    IF IsNaN(atom.x) \/ IsNaN(atom.y) \/ IsNaN(atom.z) THEN NaN
    ELSE Num(h * Val(atom.x) + k * Val(atom.y) + l * Val(atom.z))

\* lines 540-549: the sums F_re and F_im over the atoms from the i-th on, and
\* the magnitude of the plane (h,k,l)
RECURSIVE magnitude(_, _, _, _, _, _, _)
magnitude(atomPositions, i, h, k, l, F_re, F_im) ==
    LET Cos(n) == IF IsNaN(n) THEN NaN ELSE CosTable[Val(n) + 13]
        Sin(n) == IF IsNaN(n) THEN NaN ELSE SinTable[Val(n) + 13]
    IN  IF i > Len(atomPositions)
        THEN Sqrt(Add(Mul(F_re, F_re), Mul(F_im, F_im)))
        ELSE magnitude(atomPositions, i + 1, h, k, l,
                       Add(F_re, Cos(angle(h, k, l, atomPositions[i]))),
                       Add(F_im, Sin(angle(h, k, l, atomPositions[i]))))

\* lines 557-564: the zone axis read from the plane string, and the string
\* that the titles show
ZoneAxisOf(zoneAxisStr) ==
    LET zoneAxis == [ i \in 1..Len(zoneAxisStr) |-> FieldNumber(zoneAxisStr[i]) ]
    IN  IF \/ Len(zoneAxis) # 3
           \/ \E i \in 1..Len(zoneAxis) : IsNaN(zoneAxis[i])
           \/ \A i \in 1..Len(zoneAxis) : zoneAxis[i] = Zero
        THEN [zoneAxis |-> << Num(S), Zero, Zero >>, zoneAxisStr |-> << "1", "0", "0" >>,
              defaulted |-> TRUE]
        ELSE [zoneAxis |-> zoneAxis, zoneAxisStr |-> zoneAxisStr, defaulted |-> FALSE]

\* structure factors to which only the first atom contributes
structureFactorsOfFirstAtom(atomPositions, h_range, k_range, l_range) ==
    IF IsNaN(h_range) \/ IsNaN(k_range) \/ IsNaN(l_range) THEN { }
    ELSE { [ hkl |-> p,
             magnitude |-> magnitude(SubSeq(atomPositions, 1, 1), 1, p[1], p[2], p[3],
                                     FloatZero, FloatZero) ] :
           p \in ((-Val(h_range))..Val(h_range)) \X ((-Val(k_range))..Val(k_range))
                     \X ((-Val(l_range))..Val(l_range)) }

\* lines 526-554: the magnitude stored for every plane of the index box
structureFactors(atomPositions, h_range, k_range, l_range) ==
    IF IsNaN(h_range) \/ IsNaN(k_range) \/ IsNaN(l_range) THEN { }
    ELSE { [ hkl |-> p,
             magnitude |-> magnitude(atomPositions, 1, p[1], p[2], p[3], FloatZero, FloatZero) ] :
           p \in ((-Val(h_range))..Val(h_range)) \X ((-Val(k_range))..Val(k_range))
                     \X ((-Val(l_range))..Val(l_range)) }

\* lines 531-538: the planes pushed by the three loops, in their order
listofPlanes(h_range, k_range, l_range) ==
    IF IsNaN(h_range) \/ IsNaN(k_range) \/ IsNaN(l_range) THEN << >>
    ELSE [ i \in 1..((2 * Val(h_range) + 1) * (2 * Val(k_range) + 1) * (2 * Val(l_range) + 1)) |->
             << ((i - 1) \div ((2 * Val(k_range) + 1) * (2 * Val(l_range) + 1))) - Val(h_range),
                (((i - 1) \div (2 * Val(l_range) + 1)) % (2 * Val(k_range) + 1)) - Val(k_range),
                ((i - 1) % (2 * Val(l_range) + 1)) - Val(l_range) >> ]

RECURSIVE structureFactorMagnitudes(_, _, _, _)
\* line 551: the magnitude pushed for each plane pushed, for the planes
\* lo..hi in their order (the list is built by halves)
structureFactorMagnitudes(atomPositions, planes, lo, hi) ==
    IF lo > hi THEN << >>
    ELSE IF lo = hi
    THEN << magnitude(atomPositions, 1, planes[lo][1], planes[lo][2], planes[lo][3],
                      FloatZero, FloatZero) >>
    ELSE structureFactorMagnitudes(atomPositions, planes, lo, (lo + hi) \div 2)
         \o structureFactorMagnitudes(atomPositions, planes, ((lo + hi) \div 2) + 1, hi)

\* x < y for doubles: false when either is NaN
Less(x, y) == ~IsNaN(x) /\ ~IsNaN(y) /\ Sub(x, y)[1] < 0

\* line 576
dummyVector(normalPlaneVector) ==
    IF /\ ~IsNaN(normalPlaneVector[1])
       /\ Less(<< Abs(normalPlaneVector[1][1]), normalPlaneVector[1][2] >>, Normal(9, -1))
    THEN << FromInt(1), FloatZero, FloatZero >>
    ELSE << FloatZero, FromInt(1), FloatZero >>

\* lines 577-578
yVector(normalPlaneVector) ==
    CHOOSE y \in { normalizeVector(crossProduct(dummyVector(n), n)) :
                     n \in { normalPlaneVector } } : TRUE

\* lines 579-580
xVector(normalPlaneVector) ==
    CHOOSE x \in { normalizeVector(crossProduct(n, y)) :
                     n \in { normalPlaneVector }, y \in { yVector(normalPlaneVector) } } : TRUE

\* lines 584-588: h a* + k b* + l c*
gVec(hkl, recip) ==
    LET Component(i) == Add(Add(Mul(FromInt(hkl[1]), recip[1][i]),
                                Mul(FromInt(hkl[2]), recip[2][i])),
                            Mul(FromInt(hkl[3]), recip[3][i]))
    IN  << Component(1), Component(2), Component(3) >>

RECURSIVE projectedCoords(_, _, _, _, _, _, _)
\* lines 583-594: listofPlanes.map, for the planes lo..hi in their order
projectedCoords(planes, recip, x, y, normalPlaneVector, lo, hi) ==
    IF lo > hi THEN << >>
    ELSE IF lo = hi
    THEN << << dotProduct(gVec(planes[lo], recip), x),
               dotProduct(gVec(planes[lo], recip), y),
               dotProduct(gVec(planes[lo], recip), normalPlaneVector) >> >>
    ELSE projectedCoords(planes, recip, x, y, normalPlaneVector, lo, (lo + hi) \div 2)
         \o projectedCoords(planes, recip, x, y, normalPlaneVector, ((lo + hi) \div 2) + 1, hi)

\* Math.max(x, y): NaN if either is NaN
Larger(x, y) == IF IsNaN(x) \/ IsNaN(y) THEN NaN ELSE IF Less(x, y) THEN y ELSE x

RECURSIVE MathMax(_, _, _)
\* Math.max(...values) of the values lo..hi, lo <= hi: NaN if a value is NaN
MathMax(values, lo, hi) ==
    IF lo = hi THEN values[lo]
    ELSE Larger(MathMax(values, lo, (lo + hi) \div 2),
                MathMax(values, ((lo + hi) \div 2) + 1, hi))

\* a filter that lets every magnitude above 0 pass
EmittedAbovePositive(hkl, mag) == Less(FloatZero, mag)

\* the condition of line 602
Emitted(hkl, mag) ==
    \/ Less(Normal(1, -3), mag)
    \/ (hkl[1] = 0 /\ hkl[2] = 0 /\ hkl[3] = 0 /\ Less(FloatZero, mag))

\* line 607: (magnitude / (Math.max(...structureFactorMagnitudes) || 1)) * 10 + 5
markerSize(mag, max) ==
    Add(Mul(Div(mag, IF IsNaN(max) \/ max = FloatZero THEN FromInt(1) ELSE max),
            FromInt(10)),
        FromInt(5))

RECURSIVE diffractionDataPoints(_, _, _, _, _, _)
\* lines 598-610: projectedCoords.forEach for the indices lo..hi in their
\* order; max is Math.max(...structureFactorMagnitudes)
diffractionDataPoints(planes, coords, magnitudes, max, lo, hi) ==
    IF lo > hi THEN << >>
    ELSE IF lo = hi
    THEN (IF Emitted(planes[lo], magnitudes[lo])
          THEN << [ x |-> coords[lo][1], y |-> coords[lo][2],
                    label |-> << IntString(planes[lo][1]), IntString(planes[lo][2]),
                                 IntString(planes[lo][3]) >>,
                    markerSize |-> markerSize(magnitudes[lo], max) ] >>
          ELSE << >>)
    ELSE diffractionDataPoints(planes, coords, magnitudes, max, lo, (lo + hi) \div 2)
         \o diffractionDataPoints(planes, coords, magnitudes, max, ((lo + hi) \div 2) + 1, hi)

\* lines 598-610 for the three lists, once the lists are there; the
\* maximum of no magnitudes is -Infinity and scales no point
PointsOf(planes, coords, magnitudes) ==
    CHOOSE points \in
        { diffractionDataPoints(planes, c, magnitudes, max, 1, Len(c)) :
            c \in { coords },
            max \in { IF magnitudes = << >> THEN NaN
                      ELSE MathMax(magnitudes, 1, Len(magnitudes)) } } : TRUE

\* lines 540-610 for the planes and the normal of the zone: the magnitudes,
\* the two axes of the projection, the projected coordinates, the points
ChartOn(atomPositions, planes, recip, normalPlaneVector) ==
    CHOOSE points \in
        { PointsOf(planes,
                   projectedCoords(planes, recip, x, y, normalPlaneVector, 1, Len(planes)),
                   magnitudes) :
            x \in { xVector(normalPlaneVector) }, y \in { yVector(normalPlaneVector) },
            magnitudes \in { structureFactorMagnitudes(atomPositions, planes, 1, Len(planes)) } } :
        TRUE

\* lines 526-610: the points handed to the chart
ChartPoints(atomPositions, planes, recip, normalPlaneVector) ==
    CHOOSE points \in { ChartOn(atomPositions, p, recip, n) :
                          p \in { planes }, n \in { normalPlaneVector } } : TRUE

\* lines 516-737: the analysis once the lattice vectors are there
AnalysisOn(parsedData, zone, direct, recip) ==
    IF recip = Null
    THEN [ msgs |-> << ReciprocalFailedMsg >>, fatal |-> { "zeroVolume" },
           stages |-> { "lattice" }, nanInto |-> { }, plot |-> Null ]
    ELSE CHOOSE analysis \in
        { [ msgs |-> << >>, fatal |-> { },
            stages |-> { "lattice", "structureFactor", "projection", "render" },
            nanInto |-> IF \E i \in 1..3 : HasNaN(direct[i]) \/ HasNaN(recip[i])
                        THEN { "structureFactor", "projection", "render" } ELSE { },
            structureFactors |->
                structureFactors(parsedData.atomPositions, h_range, k_range, l_range),
            diffractionDataPoints |->
                ChartPoints(parsedData.atomPositions, listofPlanes(h_range, k_range, l_range),
                            recip, normalPlaneVector),
            plot |-> [ title |-> zone.zoneAxisStr, zoneAxis |-> zone.zoneAxis,
                       nan |-> \E i \in 1..3 : HasNaN(direct[i]) \/ HasNaN(recip[i]),
                       atoms |-> Len(parsedData.atomPositions) ] ] :
            h_range \in { IndexRange(recip[1]) }, k_range \in { IndexRange(recip[2]) },
            l_range \in { IndexRange(recip[3]) },
            normalPlaneVector \in { normalizeVector(g_hkl(zone.zoneAxis, recip)) } } : TRUE

\* performCrystallographicAnalysis(parsedData, zoneAxisStr, showMessage):
\*   msgs    the showMessage calls, in order
\*   fatal   the fatal conditions met
\*   stages  the pipeline stages that ran
\*   nanInto the stages that were handed a NaN lattice vector
\*   structureFactors  the magnitude stored for each plane (after a render only)
\*   diffractionDataPoints  the points of the chart (after a render only)
\*   plot    what was handed to Plotly.react and CanvasJS, Null without a render:
\*           the zone axis of the titles and of the projection, the number of
\*           atoms
performCrystallographicAnalysis(parsedData, zoneAxisStr) ==
    IF \/ parsedData.atomPositions = << >> \/ Falsy(parsedData.cellParameters.a)
       \/ Falsy(parsedData.cellParameters.b) \/ Falsy(parsedData.cellParameters.c)
    THEN [ msgs |-> << MissingDataMsg >>,
           fatal |-> (IF parsedData.atomPositions = << >> THEN { "noAtoms" } ELSE { })
                     \cup (IF \/ Falsy(parsedData.cellParameters.a)
                              \/ Falsy(parsedData.cellParameters.b)
                              \/ Falsy(parsedData.cellParameters.c)
                           THEN { "noLength" } ELSE { }),
           stages |-> { }, nanInto |-> { }, plot |-> Null ]
    ELSE CHOOSE analysis \in
             { AnalysisOn(parsedData, ZoneAxisOf(zoneAxisStr), lattice.direct,
                          lattice.reciprocal) :
                 lattice \in { LatticeOf(parsedData.cellParameters) } } : TRUE

(***************************************************************************)
(* main.js : messages, updatePlotsAndUI, the relayout listener             *)
(***************************************************************************)
UpdatedMsg      == Msg("Diffraction view updated!", "success")
UploadFirstMsg  == Msg("Please upload a CIF file first.", "error")
NoFileMsg       == Msg("No file selected. Please choose a file.", "error")
ParseFailedMsg  == Msg("Failed to parse CIF file. Check console for details.", "error")
ProcessedMsg    == Msg("CIF file processed successfully!", "success")
ReadErrorMsg    == Msg("Error reading the file. Please try again.", "error")

\* the delay of the setTimeout of line 346, in ms
DebounceMs == 200

\* an installation that keeps the old crystal when the parse fails
InstalledCrystalKeepOld(old, parsed) == IF parsed = Null THEN old ELSE parsed

\* the value of currentParsedCifData after line 254
InstalledCrystal(old, parsed) == parsed

\* a listener that sets its timer without clearing the pending one
RelayoutListenerNoClear(st, eventdata, gen) ==
    IF eventdata.shape \in { "eye", "camera" }
    THEN [ timers |-> st.timers
                      \cup { [ id |-> st.nextId, eventdata |-> eventdata,
                               remaining |-> DebounceMs, gen |-> gen ] },
           handle |-> st.nextId,
           nextId |-> st.nextId + 1 ]
    ELSE st

\* lines 299-301 and 346: one plotly_relayout listener handling one event.
\* st = [timers, handle, nextId] is the timer table, debounceTimeoutForCamera
\* and the id of the next timer; gen is the history tag of the new timer.
RelayoutListener(st, eventdata, gen) ==
    IF eventdata.shape \in { "eye", "camera" }
    THEN [ timers |-> { t \in st.timers : t.id # st.handle }
                      \cup { [ id |-> st.nextId, eventdata |-> eventdata,
                               remaining |-> DebounceMs, gen |-> gen ] },
           handle |-> st.nextId,
           nextId |-> st.nextId + 1 ]
    ELSE st

RECURSIVE DispatchRelayout(_, _, _, _)
\* Plotly calls each of the n registered listeners with the event
DispatchRelayout(n, st, eventdata, gen) ==
    IF n = 0 THEN st
    ELSE DispatchRelayout(n - 1, RelayoutListener(st, eventdata, gen), eventdata, gen)

(***************************************************************************)
(* The inputs of the application model                                     *)
(***************************************************************************)
CellLines(a, b, c, alpha, beta, gamma) ==
    << << "_cell_length_a", a >>, << "_cell_length_b", b >>, << "_cell_length_c", c >>,
       << "_cell_angle_alpha", alpha >>, << "_cell_angle_beta", beta >>,
       << "_cell_angle_gamma", gamma >> >>

AtomSiteHeaderLines ==
    << << "loop_" >>, << "_atom_site_label" >>, << "_atom_site_fract_x" >>,
       << "_atom_site_fract_y" >>, << "_atom_site_fract_z" >> >>

NaClLines == AtomSiteHeaderLines \o << << "Na1", "0", "0", "0" >>, << "Cl1", "0.5", "0.5", "0.5" >> >>

\* the files the user can select: one that does not parse, a sound crystal,
\* and crystals whose cell is geometrically inconsistent or flat
AppFiles ==
    << \* 1: no atom-site table
       CellLines("1", "1", "1", "90", "90", "90"),
       \* 2: cubic cell, two atoms
       << << "_space_group_name_H-M_alt", "'Fm-3m'" >>,
          << "_chemical_formula_structural", "'NaCl'" >> >>
          \o CellLines("1", "1", "1", "90", "90", "90") \o NaClLines,
       \* 3: geometrically inconsistent cell
       CellLines("1", "1", "1", "60", "60", "150") \o NaClLines,
       \* 4: flat cell, volume 0
       CellLines("1", "1", "1", "90", "0", "90") \o NaClLines >>

\* parseCifInfo of each file
ParsedAppFiles == [ i \in 1..Len(AppFiles) |-> parseCifInfo(AppFiles[i]) ]

\* camera eye vectors, in 1/S
Eyes == { << Num(S), Num(S), Zero >>, << Zero, Zero, Num(-S) >> }

\* what a plotly_relayout event with camera data carries: 'scene.camera.eye'
\* or 'scene.camera'
EventData == { [ shape |-> "eye", eye |-> << Num(S), Num(S), Zero >> ],
               [ shape |-> "camera", eye |-> << Zero, Zero, Num(-S) >> ] }

\* what the user types into the plane field
UserPlanes == { << "0", "1", "1" >>, << "abc" >> }

\* lines 318-341 of the debounced callback: the lattice of the crystal and
\* the plane string the camera eye resolves to.  kind is how they end:
\*   "nolattice" console.error, return (lines 326-329)
\*   "throw"     an exception left getMillerIndicesFromCamera
\*   "nohkl"     console.warn (line 343)
\*   "update"    hklString is handed to updatePlotsAndUI
CameraPlaneOn(lattice, eye) ==
    LET Resolved(nan, miller) ==
            IF miller.kind = "throw" THEN [kind |-> "throw", hklString |-> << >>, nan |-> nan]
            ELSE IF miller.kind = "null" THEN [kind |-> "nohkl", hklString |-> << >>, nan |-> nan]
            ELSE [kind |-> "update",
                  hklString |-> << IntString(miller.hkl[1]), IntString(miller.hkl[2]),
                                   IntString(miller.hkl[3]) >>,
                  nan |-> nan]
    IN  IF lattice.reciprocal = Null
        THEN [kind |-> "nolattice", hklString |-> << >>, nan |-> FALSE]
        ELSE Resolved(\E i \in 1..3 : HasNaN(lattice.direct[i]) \/ HasNaN(lattice.reciprocal[i]),
                      getMillerIndicesFromCamera(<< Float(eye[1]), Float(eye[2]), Float(eye[3]) >>,
                                                 lattice.direct, lattice.reciprocal))

\* the same for a crystal
CameraPlane(crystal, eye) == CameraPlaneOn(LatticeOf(crystal.cellParameters), eye)

\* The crystals of the files, and CameraPlane and
\* performCrystallographicAnalysis tabulated over them: the handlers look
\* their results up instead of computing them again in every state.
Crystals == { ParsedAppFiles[i] : i \in 1..Len(AppFiles) } \ { Null }

CameraPlaneTable ==
    { [crystal |-> c, eye |-> e, result |-> CameraPlane(c, e)] : c \in Crystals, e \in Eyes }

PlaneStrings ==
    UserPlanes \cup { r.result.hklString : r \in { t \in CameraPlaneTable : t.result.kind = "update" } }

AnalysisTable ==
    { [crystal |-> c, plane |-> p, result |-> performCrystallographicAnalysis(c, p)] :
          c \in Crystals, p \in PlaneStrings }

CameraPlaneOf(crystal, eye) ==
    (CHOOSE r \in CameraPlaneTable : r.crystal = crystal /\ r.eye = eye).result

AnalysisOf(crystal, planeStr) ==
    (CHOOSE r \in AnalysisTable : r.crystal = crystal /\ r.plane = planeStr).result

\* updatePlotsAndUI(planeStr, cameraState) on the current crystal:
\* plane is the new planeInput.value; the other fields are as for
\* performCrystallographicAnalysis
updatePlotsAndUI(crystal, planeStr, oldPlane) ==
    LET Shown(r) ==
            [ plane |-> planeStr, msgs |-> r.msgs \o << UpdatedMsg >>, fatal |-> r.fatal,
              stages |-> r.stages, nanInto |-> r.nanInto, plot |-> r.plot, applied |-> TRUE ]
    IN  IF crystal # Null
        THEN Shown(AnalysisOf(crystal, planeStr))
        ELSE [ plane |-> oldPlane, msgs |-> << UploadFirstMsg >>, fatal |-> { }, stages |-> { },
               nanInto |-> { }, plot |-> Null, applied |-> FALSE ]

\* a callback that resolves the plane of the camera and hands it to nothing
CameraCallbackNoFeedback(crystal, eventdata, oldPlane) ==
    LET none == [ plane |-> oldPlane, msgs |-> << >>, fatal |-> { }, stages |-> { },
                  nanInto |-> { }, plot |-> Null, applied |-> FALSE ]
    IN  IF crystal = Null THEN [kind |-> "idle", u |-> none]
        ELSE [kind |-> CameraPlaneOf(crystal, eventdata.eye).kind,
              u |-> [none EXCEPT !.stages = { "lattice", "resolver" }]]

\* what a callback that updates nothing leaves behind
NothingDone(oldPlane) ==
    [ plane |-> oldPlane, msgs |-> << >>, fatal |-> { }, stages |-> { },
      nanInto |-> { }, plot |-> Null, applied |-> FALSE ]

\* lines 320-345: the callback once the resolver has answered with p
hklFromCamera(crystal, oldPlane, p) ==
    IF p.kind = "nolattice"
    THEN [kind |-> p.kind,
          u |-> [NothingDone(oldPlane) EXCEPT !.fatal = { "zeroVolume" },
                                              !.stages = { "lattice" }]]
    ELSE IF p.kind \in { "throw", "nohkl" }
    THEN [kind |-> p.kind,
          u |-> [NothingDone(oldPlane) EXCEPT !.stages = { "lattice", "resolver" },
                                              !.nanInto = IF p.nan THEN { "resolver" }
                                                          ELSE { }]]
    ELSE [kind |-> "update",
          u |-> [updatePlotsAndUI(crystal, p.hklString, oldPlane)
                   EXCEPT !.stages = @ \cup { "lattice", "resolver" },
                          !.nanInto = @ \cup (IF p.nan THEN { "resolver" } ELSE { })]]

\* lines 302-345: the debounced callback.  kind is "idle" when there is no
\* crystal and nothing is done, else the kind of CameraPlane
CameraCallback(crystal, eventdata, oldPlane) ==
    IF crystal = Null THEN [kind |-> "idle", u |-> NothingDone(oldPlane)]
    ELSE hklFromCamera(crystal, oldPlane, CameraPlaneOf(crystal, eventdata.eye))

\* bounds of the exploration
MaxCrystals == 2
MaxTimerId == 2
MaxReading == 1
TickMs == 100

\* the parser harness before parseCifInfo has returned
NotParsed == [ pending |-> TRUE ]

\* the kernel harness before a function was called
NotCalled == [ fn |-> "none" ]

NoRun == [ handler |-> "none", outcome |-> "none", msgs |-> << >>, fatal |-> { },
           stages |-> { }, nanInto |-> { }, eye |-> << >>, scheduledGen |-> 0,
           gen |-> 0, applied |-> FALSE, parsedOk |-> FALSE ]

LastMessage(msgs, old) == IF msgs = << >> THEN old ELSE msgs[Len(msgs)]

AppInit ==
    /\ currentParsedCifData = Null
    /\ debounceTimeoutForCamera = 0
    /\ currentCamera = Null
    /\ timers = { }
    /\ nextTimerId = 1
    /\ listeners = 0
    /\ planeInput \in UserPlanes
    /\ messageDisplay = Msg("", "none")
    /\ reading = << >>
    /\ plots = Null
    /\ sinceEvent = DebounceMs
    /\ lastEye = << >>
    /\ parseFailed = FALSE
    /\ generation = 0
    /\ burstEvents = 0
    /\ burstRuns = 0
    /\ lastRun = NoRun

\* the page after construction; the parser harness is idle
Init ==
    /\ AppInit
    /\ cifInfo = << >>
    /\ parseResult = NotParsed
    /\ kernelInput = NotCalled
    /\ kernelResult = NotCalled

(***************************************************************************)
(* main.js : the handlers                                                  *)
(***************************************************************************)
\* The FileReader objects are independent of each other and their load
\* events come in any order: the pending reads are kept in the order of the
\* file numbers.
InsertSorted(seq, i) ==
    SelectSeq(seq, LAMBDA x : x <= i) \o << i >> \o SelectSeq(seq, LAMBDA x : x > i)

\* handleFileSelection with a file (lines 237-249, 356): the read starts
SelectFile(i) ==
    /\ Len(reading) < MaxReading
    /\ messageDisplay' = [messageDisplay EXCEPT !.text = ""]
    /\ reading' = InsertSorted(reading, i)
    /\ lastRun' = [NoRun EXCEPT !.handler = "select", !.outcome = "reading", !.gen = generation]
    /\ UNCHANGED << currentParsedCifData, debounceTimeoutForCamera, currentCamera, timers,
                    nextTimerId, listeners, planeInput, plots, sinceEvent, lastEye,
                    parseFailed, generation, burstEvents, burstRuns, harnessVars >>

\* handleFileSelection without a file (lines 243-247)
SelectNoFile ==
    /\ messageDisplay' = NoFileMsg
    /\ lastRun' = [NoRun EXCEPT !.handler = "select", !.outcome = "message",
                                !.msgs = << NoFileMsg >>, !.gen = generation]
    /\ UNCHANGED << currentParsedCifData, debounceTimeoutForCamera, currentCamera, timers,
                    nextTimerId, listeners, planeInput, reading, plots, sinceEvent, lastEye,
                    parseFailed, generation, burstEvents, burstRuns, harnessVars >>

RemoveAt(seq, k) == SubSeq(seq, 1, k - 1) \o SubSeq(seq, k + 1, Len(seq))

\* reader.onload (lines 250-350) for the k-th file being read.  The method
\* structureCanvas.on of line 296 is put on the element by Plotly when it
\* first draws into it: on an element never drawn into the call throws, after
\* the messages of the load were shown and before the listener is registered.
ReaderLoad(k) ==
    LET Rendered(parsed, u) ==
            /\ planeInput' = u.plane
            /\ plots' = IF u.plot = Null THEN plots ELSE [shown |-> u.plot, gen |-> generation']
            /\ messageDisplay' = LastMessage(u.msgs \o << ProcessedMsg >>, messageDisplay)
            /\ listeners' = IF plots' = Null THEN listeners ELSE listeners + 1
            /\ lastRun' = [NoRun EXCEPT !.handler = "load",
                                        !.outcome = IF plots' = Null THEN "exception"
                                                    ELSE IF u.plot = Null THEN "message"
                                                    ELSE "render",
                                        !.msgs = u.msgs \o << ProcessedMsg >>,
                                        !.fatal = u.fatal, !.stages = u.stages,
                                        !.nanInto = u.nanInto, !.gen = generation',
                                        !.applied = TRUE, !.parsedOk = (parsed # Null)]
        Installed(parsed, installed, u) ==
            /\ parsed # Null => generation < MaxCrystals
            /\ reading' = RemoveAt(reading, k)
            /\ currentParsedCifData' = installed
            /\ parseFailed' = (parsed = Null)
            /\ generation' = IF parsed = Null THEN generation ELSE generation + 1
            /\ IF installed = Null
               THEN /\ messageDisplay' = ParseFailedMsg
                    /\ lastRun' = [NoRun EXCEPT !.handler = "load", !.outcome = "message",
                                                !.msgs = << ParseFailedMsg >>,
                                                !.fatal = { "parseNull" }, !.gen = generation']
                    /\ UNCHANGED << planeInput, plots, listeners >>
               ELSE Rendered(parsed, u)
            /\ UNCHANGED << debounceTimeoutForCamera, currentCamera, timers, nextTimerId,
                            sinceEvent, lastEye, burstEvents, burstRuns, harnessVars >>
    IN  /\ k \in 1..Len(reading)
        /\ \E parsed \in { ParsedAppFiles[reading[k]] } :
           \E installed \in { InstalledCrystal(currentParsedCifData, parsed) } :
           \E u \in { updatePlotsAndUI(installed, planeInput, planeInput) } :
              Installed(parsed, installed, u)

\* reader.onerror (lines 352-355)
ReaderError(k) ==
    /\ k \in 1..Len(reading)
    /\ reading' = RemoveAt(reading, k)
    /\ messageDisplay' = ReadErrorMsg
    /\ lastRun' = [NoRun EXCEPT !.handler = "readerror", !.outcome = "message",
                                !.msgs = << ReadErrorMsg >>, !.gen = generation]
    /\ UNCHANGED << currentParsedCifData, debounceTimeoutForCamera, currentCamera, timers,
                    nextTimerId, listeners, planeInput, plots, sinceEvent,
                    lastEye, parseFailed, generation, burstEvents, burstRuns, harnessVars >>

\* the user types a plane into the plane field
EditPlane(p) ==
    /\ p # planeInput
    /\ planeInput' = p
    /\ UNCHANGED << currentParsedCifData, debounceTimeoutForCamera, currentCamera, timers,
                    nextTimerId, listeners, messageDisplay, 
                    reading, plots, sinceEvent, lastEye, parseFailed, generation, burstEvents, burstRuns,
                    lastRun, harnessVars >>

\* the click handler of the Update button (lines 364-373)
ClickUpdate ==
    LET Updated(u) ==
            /\ planeInput' = u.plane
            /\ plots' = IF u.plot = Null THEN plots ELSE [shown |-> u.plot, gen |-> generation]
            /\ messageDisplay' = LastMessage(u.msgs, messageDisplay)
            /\ lastRun' = [NoRun EXCEPT !.handler = "click",
                                        !.outcome = IF u.plot = Null THEN "message" ELSE "render",
                                        !.msgs = u.msgs, !.fatal = u.fatal, !.stages = u.stages,
                                        !.nanInto = u.nanInto, !.gen = generation,
                                        !.applied = u.applied]
    IN  /\ Updated(updatePlotsAndUI(currentParsedCifData, planeInput, planeInput))
        /\ UNCHANGED << currentParsedCifData, debounceTimeoutForCamera, currentCamera, timers,
                        nextTimerId, listeners, reading, sinceEvent, lastEye, parseFailed,
                        generation, burstEvents, burstRuns, harnessVars >>

\* Plotly emits plotly_relayout with a camera change: every registered
\* listener runs (lines 296-348).  The scene exists once a plot was drawn.
CameraEvent(eventdata) ==
    LET Dispatched(st) ==
            /\ timers' = st.timers
            /\ debounceTimeoutForCamera' = st.handle
            /\ nextTimerId' = st.nextId
    IN  /\ plots # Null
        /\ listeners >= 1
        /\ nextTimerId + listeners - 1 <= MaxTimerId
        /\ Dispatched(DispatchRelayout(listeners,
                                       [ timers |-> timers, handle |-> debounceTimeoutForCamera,
                                         nextId |-> nextTimerId ],
                                       eventdata, generation))
        /\ sinceEvent' = 0
        /\ lastEye' = eventdata.eye
        /\ burstEvents' = IF sinceEvent >= DebounceMs THEN 1 ELSE burstEvents + 1
        /\ burstRuns' = IF sinceEvent >= DebounceMs THEN 0 ELSE burstRuns
        /\ lastRun' = [NoRun EXCEPT !.handler = "relayout", !.outcome = "scheduled",
                                    !.eye = eventdata.eye, !.gen = generation]
        /\ UNCHANGED << currentParsedCifData, currentCamera, listeners, planeInput,
                        messageDisplay, reading, plots, parseFailed, generation, harnessVars >>

\* Plotly emits plotly_relayout without camera data (lines 296-299): every
\* listener finds neither key in it and returns
OtherRelayout ==
    LET Dispatched(st) ==
            /\ timers' = st.timers
            /\ debounceTimeoutForCamera' = st.handle
            /\ nextTimerId' = st.nextId
    IN  /\ plots # Null
        /\ listeners >= 1
        /\ Dispatched(DispatchRelayout(listeners,
                                       [ timers |-> timers, handle |-> debounceTimeoutForCamera,
                                         nextId |-> nextTimerId ],
                                       [ shape |-> "none", eye |-> << >> ], generation))
        /\ UNCHANGED << currentParsedCifData, currentCamera, listeners, planeInput,
                        messageDisplay, reading, plots, sinceEvent, lastEye, parseFailed,
                        generation, burstEvents, burstRuns, lastRun, harnessVars >>

\* the browser runs the callback of a timer whose delay has elapsed (lines 301-346)
TimerFire(t) ==
    LET Ran(kind, u) ==
            /\ planeInput' = u.plane
            /\ plots' = IF u.plot = Null THEN plots ELSE [shown |-> u.plot, gen |-> generation]
            /\ messageDisplay' = LastMessage(u.msgs, messageDisplay)
            /\ lastRun' = [NoRun EXCEPT !.handler = "camera",
                                        !.outcome = CASE kind = "throw" -> "exception"
                                                      [] kind = "update" /\ u.plot # Null -> "render"
                                                      [] kind = "update" /\ u.plot = Null -> "message"
                                                      [] OTHER -> "silent",
                                        !.msgs = u.msgs, !.fatal = u.fatal, !.stages = u.stages,
                                        !.nanInto = u.nanInto, !.eye = t.eventdata.eye,
                                        !.scheduledGen = t.gen, !.gen = generation,
                                        !.applied = u.applied]
        Called(r) == Ran(r.kind, r.u)
    IN  /\ t \in timers
        /\ t.remaining = 0
        /\ timers' = timers \ { t }
        /\ currentCamera' = IF t.eventdata.shape = "camera" THEN [eye |-> t.eventdata.eye]
                            ELSE currentCamera
        /\ burstRuns' = burstRuns + 1
        /\ Called(CameraCallback(currentParsedCifData, t.eventdata, planeInput))
        /\ UNCHANGED << currentParsedCifData, debounceTimeoutForCamera, nextTimerId, listeners,
                        reading, sinceEvent, lastEye, parseFailed, generation, burstEvents,
                        harnessVars >>

\* TickMs pass
Tick ==
    LET Min(x, y) == IF x < y THEN x ELSE y
        Max(x, y) == IF x > y THEN x ELSE y
    IN  /\ sinceEvent < DebounceMs \/ \E t \in timers : t.remaining > 0
        /\ sinceEvent' = Min(sinceEvent + TickMs, DebounceMs)
        /\ timers' = { [t EXCEPT !.remaining = Max(0, t.remaining - TickMs)] : t \in timers }
        /\ UNCHANGED << currentParsedCifData, debounceTimeoutForCamera, currentCamera,
                        nextTimerId, listeners, planeInput, messageDisplay,
                        reading, plots, lastEye, parseFailed, generation,
                        burstEvents, burstRuns, lastRun, harnessVars >>

Next ==
    \/ \E i \in 1..Len(AppFiles) : SelectFile(i)
    \/ SelectNoFile
    \/ \E k \in 1..MaxReading : ReaderLoad(k)
    \/ \E k \in 1..MaxReading : ReaderError(k)
    \/ \E p \in UserPlanes : EditPlane(p)
    \/ ClickUpdate
    \/ \E e \in EventData : CameraEvent(e)
    \/ OtherRelayout
    \/ \E t \in timers : TimerFire(t)
    \/ Tick

Spec == Init /\ [][Next]_vars

(***************************************************************************)
(* The parser on its own: parseCifInfo applied to the texts of a bounded   *)
(* family of CIF files                                                     *)
(***************************************************************************)
\* the greatest number of lines after the atom-site header
MaxRows == 2

\* with and without a space group and a structural formula
Prefixes ==
    { CellLines("1", "1", "1", "90", "90", "90"),
      << << "_space_group_name_H-M_alt", "'P 1'" >>, << "_space_group_IT_number", "1" >>,
         << "_chemical_formula_structural", "'NaCl'" >> >>
         \o CellLines("1", "1", "1", "90", "90", "90") }

\* no symmetry loop; a loop without an operation; the identity alone, in two
\* spellings; the identity and the inversion; the identity and an operation
\* with two components; an operation whose second component is empty; an
\* index column before operations in double quotes and without quotes, and a
\* row that has the index alone
SymmetryBlocks ==
    { << >>,
      << << "loop_" >>, << "_symmetry_equiv_pos_as_xyz" >>, << "''" >> >>,
      << << "loop_" >>, << "_symmetry_equiv_pos_as_xyz" >>, << "'x,y,z'" >> >>,
      << << "LOOP_" >>, << "_space_group_symop_id" >>, << "_space_group_symop_operation_xyz" >>,
         << "1", "'x, y, z'" >> >>,
      << << "loop_" >>, << "_space_group_symop_id" >>, << "_space_group_symop_operation_xyz" >>,
         << "1", "'x,y,z'" >>, << "2", "'-x,-y,-z'" >> >>,
      << << "loop_" >>, << "_symmetry_equiv_pos_as_xyz" >>, << "'x,y,z'" >>, << "x,y" >> >>,
      << << "loop_" >>, << "_symmetry_equiv_pos_as_xyz" >>, << "x,,z" >> >>,
      << << "loop_" >>, << "_symmetry_equiv_pos_site_id" >>, << "_symmetry_equiv_pos_as_xyz" >>,
         << "1", "\"x,y,z\"" >>, << "2" >>, << "3", "-x,-y,-z" >> >> }

\* the atom-site header: complete, without the label column, without
\* fract_z, with a comment inside, under a LOOP_ that line 190 does not
\* recognize, and with the element symbol in place of the label
AtomSiteHeaders ==
    { AtomSiteHeaderLines,
      << << "loop_" >>, << "_atom_site_fract_x" >>, << "_atom_site_fract_y" >>,
         << "_atom_site_fract_z" >> >>,
      << << "loop_" >>, << "_atom_site_label" >>, << "_atom_site_fract_x" >>,
         << "_atom_site_fract_y" >> >>,
      << << "loop_" >>, << "_atom_site_label" >>, << "#" >>, << "_atom_site_fract_x" >>,
         << "_atom_site_fract_y" >>, << "_atom_site_fract_z" >> >>,
      << << "LOOP_" >>, << "_atom_site_label" >>, << "_atom_site_fract_x" >>,
         << "_atom_site_fract_y" >>, << "_atom_site_fract_z" >> >>,
      << << "loop_" >>, << "_atom_site_type_symbol" >>, << "_atom_site_fract_x" >>,
         << "_atom_site_fract_y" >>, << "_atom_site_fract_z" >> >> }

\* the lines after the header: sound rows, a row with a coordinate that is
\* not a number, a short row, a row without a label, a blank line, a comment
RowKinds ==
    { << "Na1", "0", "0", "0" >>, << "Cl1", "1.25", "-0.25", "0.5(2)" >>,
      << "Na1", "?", "0", "0" >>, << "Na1", "0" >>, << "0.25", "0.5", "0.75" >>,
      << >>, << "#" >> }

RECURSIVE RowSeqs(_)
\* the sequences of at most n lines of RowKinds
RowSeqs(n) ==
    IF n = 0 THEN { << >> }
    ELSE RowSeqs(n - 1)
         \cup { Append(s, r) : s \in { q \in RowSeqs(n - 1) : Len(q) = n - 1 }, r \in RowKinds }

\* what follows the atom rows: nothing, a table of atom types, a symmetry
\* loop, or the table of the anisotropic displacements
Trailers ==
    { << >>,
      << << "loop_" >>, << "_atom_type_symbol" >>, << "Na" >> >>,
      << << "loop_" >>, << "_symmetry_equiv_pos_as_xyz" >>, << "'-x,-y,-z'" >> >>,
      << << "loop_" >>, << "_atom_site_aniso_label" >>, << "_atom_site_aniso_U_11" >>,
         << "_atom_site_aniso_U_22" >>, << "_atom_site_aniso_U_33" >>,
         << "Cl1", "0.25", "0.25", "0.5" >> >> }

CifFiles ==
    { p \o s \o t : p \in Prefixes, s \in SymmetryBlocks, t \in Trailers }
    \cup { p \o s \o h \o rows \o t : p \in Prefixes, s \in SymmetryBlocks, h \in AtomSiteHeaders,
                                      rows \in RowSeqs(MaxRows), t \in Trailers }

\* the page is idle and a text is about to be parsed
InitParse ==
    /\ AppInit
    /\ planeInput = << "0", "1", "1" >>
    /\ cifInfo \in CifFiles
    /\ parseResult = NotParsed
    /\ kernelInput = NotCalled
    /\ kernelResult = NotCalled

\* line 254: parseCifInfo(cifInfo) returns
ParseText ==
    /\ parseResult = NotParsed
    /\ parseResult' = parseCifInfo(cifInfo)
    /\ UNCHANGED << cifInfo, appVars, kernelVars >>

NextParse == ParseText

SpecParse == InitParse /\ [][NextParse]_vars

(***************************************************************************)
(* Properties of the page (Spec)                                           *)
(***************************************************************************)
\* C1: in a burst of camera events, each less than 200 ms after the one
\* before, the debounced recomputation runs at most once, after the last
\* event (200 ms have passed since it), and it resolves the eye vector of the
\* last event; at most one timer is ever pending.
C1_DebounceOncePerBurst ==
    /\ burstRuns <= 1
    /\ Cardinality(timers) <= 1
    /\ lastRun.handler = "camera" => /\ lastRun.eye = lastEye
                                     /\ sinceEvent >= DebounceMs
                                     /\ burstRuns = 1

\* a burst of two events with different eye vectors, followed by its one run
C1_Witness ==
    /\ lastRun.handler = "camera"
    /\ burstEvents >= 2
    /\ burstRuns = 1
    /\ lastRun.eye = lastEye
    /\ "resolver" \in lastRun.stages

\* C2: a debounced recomputation scheduled while an older crystal was current
\* never updates the plane input or the plots once a newer crystal is
\* installed.
C2_StaleRecomputationDiscarded ==
    ~(/\ lastRun.handler = "camera"
      /\ lastRun.scheduledGen < lastRun.gen
      /\ lastRun.applied)

\* C3: currentParsedCifData changes only in a load whose parse succeeds; a
\* load whose parse fails leaves the installed crystal in place.
C3_CrystalChangesOnlyOnSuccess ==
    [][currentParsedCifData' # currentParsedCifData
          => (lastRun'.handler = "load" /\ lastRun'.parsedOk)]_vars

\* C4: a request that meets a fatal condition (parse failure, no atoms, no
\* cell length, zero volume) calls showMessage with severity "error" and
\* neither computes structure factors nor renders.
C4_FatalConditionReported ==
    lastRun.fatal # { }
        => /\ \E i \in 1..Len(lastRun.msgs) : lastRun.msgs[i].type = "error"
           /\ lastRun.stages \cap { "structureFactor", "render" } = { }

\* C26: when a load or updatePlotsAndUI finishes, the message it leaves in
\* the sink has severity "success" only if its analysis rendered; when
\* performCrystallographicAnalysis aborted with a fatal error in the request,
\* the message left is an error, not "Diffraction view updated!" or "CIF file
\* processed successfully!".
C26_SuccessOnlyAfterRendering ==
    (lastRun.handler \in { "load", "click", "camera" } /\ lastRun.msgs # << >>)
        => /\ messageDisplay = lastRun.msgs[Len(lastRun.msgs)]
           /\ messageDisplay.type = "success" => "render" \in lastRun.stages
           /\ (lastRun.fatal # { } /\ currentParsedCifData # Null)
                 => /\ messageDisplay.type = "error"
                    /\ messageDisplay \notin { UpdatedMsg, ProcessedMsg }

\* C27: every load whose parse succeeds registers one more plotly_relayout
\* listener; at every moment at most one debounce timer is pending; and
\* after any number of loads a single camera event causes exactly one
\* recomputation: none while its timer is pending, one once it has fired.
C27_OneTimerForAllListeners ==
    /\ [][generation' = generation + 1 => listeners' = listeners + 1]_vars
    /\ [](/\ Cardinality(timers) <= 1
          /\ burstEvents = 1 => /\ timers # { } => burstRuns = 0
                                /\ timers = { } => burstRuns = 1)

\* C5: no exception escapes a top-level handler: the load callback, the click
\* handler and the debounced camera callback each end in a render or in a
\* reported message.
C5_NoEscapingException ==
    lastRun.handler \in { "load", "click", "camera" } => lastRun.outcome # "exception"

\* C6: from a load whose parse fails until a load whose parse succeeds there
\* is no current crystal and no handler runs a lattice, structure-factor or
\* projection stage or touches the plane input; a click only reports
\* "Please upload a CIF file first.".
C6_NoComputationAfterFailedParse ==
    parseFailed
        => /\ currentParsedCifData = Null
           /\ lastRun.stages = { }
           /\ ~lastRun.applied
           /\ lastRun.handler = "click" => /\ lastRun.msgs = << UploadFirstMsg >>
                                           /\ messageDisplay = UploadFirstMsg

\* a click after a failed parse that followed the plot of an earlier crystal
C6_Witness ==
    /\ parseFailed
    /\ plots # Null
    /\ lastRun.handler = "click"
    /\ lastRun.msgs = << UploadFirstMsg >>

\* C7: a cell with a negative radicand for the third component of c is
\* stopped at the lattice stage: no handler hands a NaN lattice vector to the
\* structure-factor engine, the projection, the resolver or the renderers.
C7_NoNaNDownstream ==
    lastRun.nanInto = { }

\* C20: a run of the debounced camera callback that resolves a plane (h,k,l)
\* for the current crystal sets the plane input to "h,k,l" and runs one
\* projection request with that string on the current crystal: its messages
\* and its plot are those of the request, followed by one "Diffraction view
\* updated!".  A run that resolves no plane (the resolver returns null or
\* throws, or the crystal has no reciprocal lattice) runs no request and
\* leaves the plane input, the plots and the message as they were.
C20_ResolvedPlaneFedBack ==
    [][(burstRuns' = burstRuns + 1 /\ currentParsedCifData # Null)
          => /\ CameraPlaneOf(currentParsedCifData, lastRun'.eye).kind = "update"
                   => /\ planeInput' = CameraPlaneOf(currentParsedCifData, lastRun'.eye).hklString
                      /\ lastRun'.applied
                      /\ lastRun'.msgs
                            = AnalysisOf(currentParsedCifData, planeInput').msgs \o << UpdatedMsg >>
                      /\ AnalysisOf(currentParsedCifData, planeInput').plot # Null
                            => plots' = [ shown |-> AnalysisOf(currentParsedCifData, planeInput').plot,
                                          gen |-> generation ]
             /\ CameraPlaneOf(currentParsedCifData, lastRun'.eye).kind
                     \in { "nohkl", "throw", "nolattice" }
                   => /\ planeInput' = planeInput
                      /\ plots' = plots
                      /\ messageDisplay' = messageDisplay
                      /\ lastRun'.msgs = << >>
                      /\ ~lastRun'.applied
                      /\ lastRun'.stages \cap { "structureFactor", "projection", "render" } = { }
      ]_vars

\* the callback has run for the view along -z on the cubic crystal while the
\* plane input held another plane: the input and the titles of the plots now
\* read "0,0,1"
C20_Witness ==
    /\ lastRun.handler = "camera"
    /\ lastRun.outcome = "render"
    /\ lastRun.eye = << Zero, Zero, Num(-S) >>
    /\ planeInput = << "0", "0", "1" >>
    /\ plots.shown.title = << "0", "0", "1" >>
    /\ lastRun.msgs = << UpdatedMsg >>

(***************************************************************************)
(* Properties of the parser (SpecParse)                                    *)
(***************************************************************************)
\* the index of the first _atom_site_ line after the loop_ found, 0 if none
FirstAtomSiteLine(lines) ==
    IF atomSiteLoopStart(lines) = 0 THEN 0
    ELSE CHOOSE j \in 1..Len(lines) :
            /\ j > atomSiteLoopStart(lines)
            /\ StartsWithAtomSite(lines[j])
            /\ \A k \in (atomSiteLoopStart(lines) + 1)..(j - 1) : ~StartsWithAtomSite(lines[k])

\* (a) no line loop_ with an _atom_site_ tag in the nine lines after it
NoAtomSiteTable(lines) ==
    ~\E i \in 1..Len(lines) :
        /\ lines[i] = << "loop_" >>
        /\ \E j \in (i + 1)..Len(lines) : j <= i + 9 /\ StartsWithAtomSite(lines[j])

\* the columns of the table: the _atom_site_ tags of the header, which ends
\* at the first line that is neither a tag of the table, a comment nor loop_
ColumnNames(lines) ==
    LET first == FirstAtomSiteLine(lines)
        InHeader(j) == \A k \in first..j : \/ StartsWithAtomSite(lines[k])
                                           \/ StartsWithHash(lines[k])
                                           \/ StartsWithLoop(lines[k])
    IN  { AtomSiteSuffix[lines[j][1]] :
              j \in { k \in first..Len(lines) : StartsWithAtomSite(lines[k]) /\ InHeader(k) } }

\* (b) the table has no fract_x, no fract_y or no fract_z column
MissingFractColumn(lines) ==
    ~NoAtomSiteTable(lines) /\ ~({ "fract_x", "fract_y", "fract_z" } \subseteq ColumnNames(lines))

\* (c) no line after the first tag of the table is a data row: each is a
\* comment, a tag, a loop_ line or blank
NoDataRows(lines) ==
    /\ ~NoAtomSiteTable(lines)
    /\ \A j \in (FirstAtomSiteLine(lines) + 1)..Len(lines) :
          \/ StartsWithHash(lines[j]) \/ StartsWithUnderscore(lines[j])
          \/ StartsWithLoop(lines[j]) \/ IsBlank(lines[j])

\* C8: parseCifInfo returns null exactly when (a) no loop_ table with an
\* _atom_site_ tag is found, (b) the table lacks fract_x, fract_y or fract_z,
\* or (c) no data row remains after filtering; a missing space group,
\* formula, symmetry block or label column and bad rows do not make it null.
C8_NullIffFatal ==
    parseResult # NotParsed
        => ((parseResult = Null)
                <=> (NoAtomSiteTable(cifInfo) \/ MissingFractColumn(cifInfo) \/ NoDataRows(cifInfo)))

\* a crystal parsed from a file without space group, formula, symmetry block
\* and label column, whose rows are all bad
C8_Witness ==
    /\ parseResult # NotParsed
    /\ parseResult # Null
    /\ parseResult.spaceGroupName = "N/A"
    /\ parseResult.chemicalComponents = << >>
    /\ symmetryLoopStartIndex(cifInfo) = 0
    /\ "label" \notin ColumnNames(cifInfo)
    /\ parseResult.atomPositions = << >>

\* the rows the parser retains: the data lines with enough fields and
\* numeric coordinates, with their label and coordinates
RetainedRows(lines) ==
    LET header == AtomSiteHeader(lines, atomSiteLoopStart(lines), << >>)
        Row(l) == AtomRow(l, IndexOf(header.labels, "fract_x"), IndexOf(header.labels, "fract_y"),
                          IndexOf(header.labels, "fract_z"), IndexOf(header.labels, "label"))
        kept   == SelectSeq(atomDataLines(lines, header.dataStartsIndex),
                            LAMBDA l : Row(l) # << >>)
    IN  [ i \in 1..Len(kept) |-> Row(kept[i])[1] ]

RECURSIVE Flatten(_)
\* the tokens of the text, in order
Flatten(lines) == IF lines = << >> THEN << >> ELSE Head(lines) \o Flatten(Tail(lines))

\* the symmetry operations the text lists
ListedOperations(lines) ==
    SelectSeq(Flatten(lines),
              LAMBDA t : StripQuotes(t) \in { "x,y,z", "x, y, z", "-x,-y,-z", "x,y", "x,,z" })

\* the text lists the identity and nothing else
ListsIdentityOnly(lines) ==
    /\ Len(ListedOperations(lines)) = 1
    /\ StripQuotes(ListedOperations(lines)[1]) \in { "x,y,z", "x, y, z" }

\* a fractional coordinate, in 1/Q, brought into [0,1)
IntoUnitInterval(n) == Num(Val(n) % Q)

\* C9: when the text lists no symmetry operation the operation list is
\* ["x,y,z"]; then, and when the identity is the only operation listed, the
\* parse succeeds unless (a), (b) or (c) holds and atomPositions has exactly
\* one entry per retained row, with the row's coordinates wrapped into [0,1).
C9_IdentityExpansion ==
    (parseResult # NotParsed /\ (ListedOperations(cifInfo) = << >> \/ ListsIdentityOnly(cifInfo)))
        => /\ ListedOperations(cifInfo) = << >> => symmetryOperations(cifInfo) = << "x,y,z" >>
           /\ ~(NoAtomSiteTable(cifInfo) \/ MissingFractColumn(cifInfo) \/ NoDataRows(cifInfo))
                 => /\ parseResult # Null
                    /\ Len(parseResult.atomPositions) = Len(RetainedRows(cifInfo))
                    /\ \A i \in 1..Len(RetainedRows(cifInfo)) :
                          /\ parseResult.atomPositions[i].x = IntoUnitInterval(RetainedRows(cifInfo)[i].x)
                          /\ parseResult.atomPositions[i].y = IntoUnitInterval(RetainedRows(cifInfo)[i].y)
                          /\ parseResult.atomPositions[i].z = IntoUnitInterval(RetainedRows(cifInfo)[i].z)

\* a text without symmetry operation whose two rows are retained, one of
\* them with coordinates outside [0,1)
C9_Witness ==
    /\ parseResult # NotParsed
    /\ parseResult # Null
    /\ ListedOperations(cifInfo) = << >>
    /\ Len(parseResult.atomPositions) = 2
    /\ \E i \in 1..2 : RetainedRows(cifInfo)[i].x # parseResult.atomPositions[i].x

\* the evaluation of an operation fails: it has fewer than three components
\* or one of the first three is not an expression in x, y, z
OperationFails(opString) ==
    \/ Len(SplitComma(opString)) < 3
    \/ \E k \in 1..3 : SplitComma(opString)[k] \notin (DOMAIN Affine \cup DOMAIN DecimalValue)

\* the (row, operation) pairs whose evaluation fails
FailedPairs(lines) ==
    { pair \in (1..Len(RetainedRows(lines))) \X (1..Len(symmetryOperations(lines))) :
          OperationFails(symmetryOperations(lines)[pair[2]]) }

\* C10: for a successful parse the number of entries of atomPositions is the
\* number of retained rows times the number of operations minus the number
\* of failed pairs: a failed pair leaves no entry, and entries that coincide
\* are all kept.
C10_PositionCount ==
    (parseResult # NotParsed /\ parseResult # Null)
        => Len(parseResult.atomPositions)
              = Len(RetainedRows(cifInfo)) * Len(symmetryOperations(cifInfo))
                   - Cardinality(FailedPairs(cifInfo))

\* a parse with failed pairs and with two entries that coincide
C10_Witness ==
    /\ parseResult # NotParsed
    /\ parseResult # Null
    /\ FailedPairs(cifInfo) # { }
    /\ \E i, j \in 1..Len(parseResult.atomPositions) :
          i < j /\ parseResult.atomPositions[i] = parseResult.atomPositions[j]

\* C11: every x, y and z of every entry of atomPositions is a number in
\* [0,1), whatever the coordinates of the rows and the operations of the
\* file, operations with fewer than three well-formed components included.
C11_CoordinatesInUnitInterval ==
    (parseResult # NotParsed /\ parseResult # Null)
        => \A i \in 1..Len(parseResult.atomPositions) :
              \A n \in { parseResult.atomPositions[i].x, parseResult.atomPositions[i].y,
                         parseResult.atomPositions[i].z } :
                 ~IsNaN(n) /\ 0 <= Val(n) /\ Val(n) < Q

\* the line lists a symmetry operation whose evaluation fails
BadOperationLine(l) ==
    \E k \in 1..Len(l) :
        /\ StripQuotes(l[k]) \in { "x,y,z", "x, y, z", "-x,-y,-z", "x,y", "x,,z" }
        /\ OperationFails(StripQuotes(l[k]))

\* the indices of the data lines of the atom-site table, up to the loop_ of
\* the next table, with too few fields or with an x, y or z that is not a
\* number
BadRowLines(lines) ==
    LET Bad(parts, index) == Len(parts) < index \/ IsNaN(CoordNumber(parts[index]))
        Of(first, xIndex, yIndex, zIndex) ==
            { i \in (first + 1)..Len(lines) :
                /\ ~StartsWithHash(lines[i]) /\ ~StartsWithUnderscore(lines[i])
                /\ ~StartsWithLoop(lines[i]) /\ ~IsBlank(lines[i])
                /\ \A k \in (first + 1)..(i - 1) :
                      StartsWithLoopAnyCase(lines[k]) => \E j \in (k + 1)..(i - 1) :
                                                           StartsWithAtomSite(lines[j])
                /\ \/ Bad(SplitWhitespace(lines[i]), xIndex)
                   \/ Bad(SplitWhitespace(lines[i]), yIndex)
                   \/ Bad(SplitWhitespace(lines[i]), zIndex) }
        WithLabels(labels) ==
            Of(FirstAtomSiteLine(lines), IndexOf(labels, "fract_x"), IndexOf(labels, "fract_y"),
               IndexOf(labels, "fract_z"))
    IN  IF NoAtomSiteTable(lines) \/ MissingFractColumn(lines) \/ NoDataRows(lines) THEN { }
        ELSE WithLabels(AtomSiteHeader(lines, atomSiteLoopStart(lines), << >>).labels)

\* the text without the lines whose index is in bad and without the lines
\* that list a bad operation
WithoutBadLines(lines, bad) ==
    LET kept == { i \in 1..Len(lines) : i \notin bad /\ ~BadOperationLine(lines[i]) }
        Nth(n) == CHOOSE i \in kept : Cardinality({ k \in kept : k < i }) = n - 1
    IN  [ n \in 1..Cardinality(kept) |-> lines[Nth(n)] ]

\* the positions parseCifInfo emits for a text, none when it returns null
EmittedPositions(lines) ==
    LET Of(parsed) == IF parsed = Null THEN << >> ELSE parsed.atomPositions
    IN  Of(parseCifInfo(lines))

\* the operations the text lists whose evaluation does not fail
SoundOperations(lines) ==
    SelectSeq(ListedOperations(lines), LAMBDA t : ~OperationFails(StripQuotes(t)))

TextBeforeAtomSites(lines) ==
    LET Of(first) == SubSeq(lines, 1, first - 2)
    IN  Of(CHOOSE j \in 1..Len(lines) :
              StartsWithAtomSite(lines[j]) /\ \A k \in 1..(j - 1) : ~StartsWithAtomSite(lines[k]))

\* C13: the symmetry loop is searched for only in the text that precedes the
\* atom-site table: the operations are those found in that text alone, the
\* identity when it has no symmetry loop, whatever follows the table.
C13_SymmetrySearchBounded ==
    (parseResult # NotParsed /\ \E j \in 1..Len(cifInfo) : StartsWithAtomSite(cifInfo[j]))
        => symmetryOperations(cifInfo) = symmetryOperations(TextBeforeAtomSites(cifInfo))

\* the line loop_ that opens the symmetry table: the first whose column
\* tags, the lines starting with "_" that follow it, declare a recognized tag
SymmetryTableStart(lines) ==
    CHOOSE i \in 1..Len(lines) :
        /\ lines[i] \in { << "loop_" >>, << "LOOP_" >>, << "Loop_" >> }
        /\ \E j \in (i + 1)..Len(lines) :
              /\ \E t \in 1..3 : lines[j] = << SYMMETRY_TAGS[t] >>
              /\ \A k \in (i + 1)..j : StartsWithUnderscore(lines[k])
        /\ \A h \in 1..(i - 1) :
              ~(/\ lines[h] \in { << "loop_" >>, << "LOOP_" >>, << "Loop_" >> }
                /\ \E j \in (h + 1)..Len(lines) :
                      /\ \E t \in 1..3 : lines[j] = << SYMMETRY_TAGS[t] >>
                      /\ \A k \in (h + 1)..j : StartsWithUnderscore(lines[k]))

\* the position of the recognized tag among the column tags of the table
\* that the line start opens
OperationColumn(lines, start) ==
    CHOOSE n \in 1..Len(lines) :
        /\ \E t \in 1..3 : lines[start + n] = << SYMMETRY_TAGS[t] >>
        /\ \A k \in 1..n : StartsWithUnderscore(lines[start + k])

\* the indices of the data rows of the table: the lines after the column
\* tags, up to the first line that is a tag, loop_, a comment or blank
SymmetryRows(lines, start) ==
    { r \in (start + 1)..Len(lines) :
        /\ ~StartsWithUnderscore(lines[r])
        /\ \E j \in (start + 1)..(r - 1) :
              /\ \A k \in (start + 1)..j : StartsWithUnderscore(lines[k])
              /\ \A k \in (j + 1)..r :
                    /\ ~StartsWithUnderscore(lines[k]) /\ ~StartsWithLoopAnyCase(lines[k])
                    /\ ~StartsWithHash(lines[k]) /\ ~IsBlank(lines[k]) }

\* the rows that have a token in the operation column that is not empty
\* once its quotes are removed
RowsWithOperation(lines, rows, column) ==
    { r \in rows : Len(lines[r]) >= column /\ lines[r][column] \notin { "''", "\"\"" } }

\* the operations are, in the order of the rows, the tokens of the column
\* without their quotes
OperationsAre(operations, lines, rows, column) ==
    /\ Len(operations) = Cardinality(rows)
    /\ \A r \in rows :
          operations[Cardinality({ q \in rows : q <= r })]
             = (IF lines[r][column] \in DOMAIN QuotedText THEN QuotedText[lines[r][column]]
                ELSE lines[r][column])

\* C24: the operations of a text with a symmetry table are, row by row, the
\* token that the row has at the position of the recognized tag among the
\* column tags, a quoted string being one token and losing its quotes; this
\* holds when the operation is the only column and when an index column
\* comes before it.
C24_OperationFromItsColumn ==
    (parseResult # NotParsed /\ symmetryLoopStartIndex(cifInfo) # 0)
        => LET start  == SymmetryTableStart(cifInfo)
               column == OperationColumn(cifInfo, start)
               rows   == RowsWithOperation(cifInfo, SymmetryRows(cifInfo, start), column)
           IN  rows # { } => OperationsAre(symmetryOperations(cifInfo), cifInfo, rows, column)

\* a text was parsed whose symmetry table has an index column before the
\* operations: "x,y,z" in double quotes, a row without operation, and
\* -x,-y,-z without quotes
C24_Witness ==
    /\ parseResult # NotParsed
    /\ parseResult # Null
    /\ symmetryLoopStartIndex(cifInfo) # 0
    /\ OperationColumn(cifInfo, SymmetryTableStart(cifInfo)) = 2
    /\ Cardinality(SymmetryRows(cifInfo, SymmetryTableStart(cifInfo))) = 3
    /\ symmetryOperations(cifInfo) = << "x,y,z", "-x,-y,-z" >>
    /\ Len(parseResult.atomPositions) = 4

\* the rearrangements of n columns: the reversal, the rotation by one, and
\* the exchange of the first two
ColumnPermutations(n) ==
    { [k \in 1..n |-> n + 1 - k],
      [k \in 1..n |-> (k % n) + 1],
      [k \in 1..n |-> IF k = 1 THEN 2 ELSE IF k = 2 THEN 1 ELSE k] }

\* the index of the line that declares the k-th column of the table
TagLine(lines, start, k) ==
    CHOOSE j \in start..Len(lines) :
        /\ StartsWithAtomSite(lines[j])
        /\ Cardinality({ i \in start..j : StartsWithAtomSite(lines[i]) }) = k

\* the text with the n declared columns of the atom-site table rearranged:
\* the k-th tag line declares the column perm[k], and the k-th token of every
\* row that has a token for each column is its token perm[k]
PermuteColumns(lines, start, dataStartsIndex, n, perm) ==
    [ j \in 1..Len(lines) |->
        IF j < start THEN lines[j]
        ELSE IF j < dataStartsIndex
        THEN IF StartsWithAtomSite(lines[j])
             THEN lines[TagLine(lines, start,
                                perm[Cardinality({ i \in start..j : StartsWithAtomSite(lines[i]) })])]
             ELSE lines[j]
        ELSE IF StartsWithHash(lines[j]) \/ StartsWithUnderscore(lines[j])
                \/ StartsWithLoop(lines[j]) \/ Len(lines[j]) < n
        THEN lines[j]
        ELSE [ k \in 1..Len(lines[j]) |-> IF k <= n THEN lines[j][perm[k]] ELSE lines[j][k] ] ]

\* every line after the header that has the three tokens a row needs has a
\* token for each of the n declared columns
RowsComplete(lines, dataStartsIndex, n) ==
    \A j \in dataStartsIndex..Len(lines) :
        (StartsWithHash(lines[j]) \/ StartsWithUnderscore(lines[j]) \/ StartsWithLoop(lines[j]))
            \/ Len(lines[j]) < 3 \/ Len(lines[j]) >= n

\* the positions without their labels
Coordinates(parsed) ==
    IF parsed = Null THEN Null
    ELSE [ i \in 1..Len(parsed.atomPositions) |->
             << parsed.atomPositions[i].x, parsed.atomPositions[i].y, parsed.atomPositions[i].z >> ]

\* the text parses to the same atoms with its columns rearranged: to the
\* same crystal when a label column is declared, to the same coordinates
\* when the label is the first token of the row
SameAtomsPermuted(lines, parsed, header, start) ==
    \A perm \in ColumnPermutations(Len(header.labels)) :
        \E other \in { parseCifInfo(PermuteColumns(lines, start, header.dataStartsIndex,
                                                   Len(header.labels), perm)) } :
            IF IndexOf(header.labels, "label") # 0 THEN other = parsed
            ELSE Coordinates(other) = Coordinates(parsed)

\* without a label column the atoms are those of the table read with its
\* first column as the label column
FirstTokenIsLabel(lines, parsed, header) ==
    (IndexOf(header.labels, "label") = 0 /\ parsed # Null)
        => parsed.atomPositions
              = ExpandRows(atomDataLines(lines, header.dataStartsIndex),
                           IndexOf(header.labels, "fract_x"), IndexOf(header.labels, "fract_y"),
                           IndexOf(header.labels, "fract_z"), 1, symmetryOperations(lines))

\* C25: the coordinates and the label of an atom row come from the columns
\* declared as fract_x, fract_y, fract_z and label, wherever they stand:
\* rearranging the declared tags together with the tokens of every row
\* that has a token for each column leaves the parsed atom positions
\* unchanged; without a label column the first token of the row is the label.
C25_ColumnsFoundByName ==
    (parseResult # NotParsed /\ atomSiteLoopStart(cifInfo) # 0)
        => LET start  == atomSiteLoopStart(cifInfo)
               header == AtomSiteHeader(cifInfo, start, << >>)
           IN  header.dataStartsIndex # 0
                  => /\ RowsComplete(cifInfo, header.dataStartsIndex, Len(header.labels))
                           => SameAtomsPermuted(cifInfo, parseResult, header, start)
                     /\ FirstTokenIsLabel(cifInfo, parseResult, header)

\* a table with the label in the first column was parsed to a sodium and a
\* chlorine atom, and the text with its columns reversed has the label last
C25_Witness ==
    /\ parseResult # NotParsed
    /\ parseResult # Null
    /\ atomSiteLoopStart(cifInfo) # 0
    /\ \E header \in { AtomSiteHeader(cifInfo, atomSiteLoopStart(cifInfo), << >>) } :
          /\ header.labels = << "label", "fract_x", "fract_y", "fract_z" >>
          /\ cifInfo[header.dataStartsIndex] = << "Cl1", "1.25", "-0.25", "0.5(2)" >>
          /\ PermuteColumns(cifInfo, atomSiteLoopStart(cifInfo), header.dataStartsIndex, 4,
                            [k \in 1..4 |-> 5 - k])[header.dataStartsIndex]
                = << "0.5(2)", "-0.25", "1.25", "Cl1" >>
          /\ PermuteColumns(cifInfo, atomSiteLoopStart(cifInfo), header.dataStartsIndex, 4,
                            [k \in 1..4 |-> 5 - k])[header.dataStartsIndex - 1]
                = << "_atom_site_label" >>
    /\ \E i \in 1..Len(parseResult.atomPositions) :
          parseResult.atomPositions[i] = [x |-> Num(1), y |-> Num(3), z |-> Num(2), label |-> "Cl"]
    /\ \E i \in 1..Len(parseResult.atomPositions) : parseResult.atomPositions[i].label = "Na"

\* the index after the last line of the table whose rows start at
\* dataStartsIndex: that of the first tag or loop_ line after them
AtomTableEnd(lines, dataStartsIndex) ==
    IF \E j \in dataStartsIndex..Len(lines) :
            StartsWithUnderscore(lines[j]) \/ StartsWithLoopAnyCase(lines[j])
    THEN CHOOSE j \in dataStartsIndex..Len(lines) :
            /\ StartsWithUnderscore(lines[j]) \/ StartsWithLoopAnyCase(lines[j])
            /\ \A k \in dataStartsIndex..(j - 1) :
                  ~(StartsWithUnderscore(lines[k]) \/ StartsWithLoopAnyCase(lines[k]))
    ELSE Len(lines) + 1

\* the atoms that the rows of the atom-site table alone give
AtomsOfTable(lines, header) ==
    ExpandRows(atomDataLines(SubSeq(lines, 1, AtomTableEnd(lines, header.dataStartsIndex) - 1),
                             header.dataStartsIndex),
               IndexOf(header.labels, "fract_x"), IndexOf(header.labels, "fract_y"),
               IndexOf(header.labels, "fract_z"), IndexOf(header.labels, "label"),
               symmetryOperations(lines))

\* C30: only the data rows of the atom-site table become atoms: the rows of
\* a table that follows it, and any other text after the atom rows, add
\* nothing to atomPositions.
C30_OnlyAtomSiteRows ==
    (parseResult # NotParsed /\ parseResult # Null)
        => parseResult.atomPositions
              = AtomsOfTable(cifInfo, AtomSiteHeader(cifInfo, atomSiteLoopStart(cifInfo), << >>))

(***************************************************************************)
(* The functions of performCrystallographicAnalysis.js on their own        *)
(***************************************************************************)
\* the plane strings handed to performCrystallographicAnalysis, as their
\* comma-separated fields: "abc", "", "0,0,0", "1,2", "1.5,0,0", "1,,0",
\* planes in comma form, and "110" and "210"
PlaneInputs ==
    { << "abc" >>, << "" >>, << "0", "0", "0" >>, << "1", "2" >>, << "1.5", "0", "0" >>,
      << "1", "", "0" >>, << "1", "0", "0" >>, << "0", "1", "1" >>, << "1", "1", "0" >>,
      << "2", "1", "0" >>, << "-1", "0", "2" >>, << "110" >>, << "210" >> }

\* calls performCrystallographicAnalysis(parsedData, zoneAxisStr, showMessage)
AnalysisInputs ==
    { [ fn |-> "analysis", parsedData |-> c, zoneAxisStr |-> p ] : c \in Crystals, p \in PlaneInputs }

\* performCrystallographicAnalysis returns
AnalyzePlane ==
    /\ kernelInput.fn = "analysis"
    /\ kernelResult = NotCalled
    /\ kernelResult' = performCrystallographicAnalysis(kernelInput.parsedData,
                                                       kernelInput.zoneAxisStr)
    /\ UNCHANGED << kernelInput, cifInfo, parseResult, appVars >>

\* the plane string is three decimal integers that are not all zero
IsMillerTriple(fields) ==
    /\ Len(fields) = 3
    /\ \A i \in 1..3 : \E n \in (-MaxIndex)..MaxIndex : fields[i] = IntString(n)
    /\ \E i \in 1..3 : fields[i] # "0"

\* C14: a plane string is accepted only if it is three integers, not all
\* zero: the projection and the titles of the plots then use it, and for any
\* other string they use (1,0,0) and "1,0,0".
C14_PlaneStringValidated ==
    (kernelInput.fn = "analysis" /\ kernelResult # NotCalled /\ kernelResult.plot # Null)
        => IF IsMillerTriple(kernelInput.zoneAxisStr)
           THEN /\ \A i \in 1..3 :
                      \E n \in (-MaxIndex)..MaxIndex :
                         /\ kernelInput.zoneAxisStr[i] = IntString(n)
                         /\ kernelResult.plot.zoneAxis[i] = Num(S * n)
                /\ kernelResult.plot.title = kernelInput.zoneAxisStr
           ELSE /\ kernelResult.plot.zoneAxis = << Num(S), Zero, Zero >>
                /\ kernelResult.plot.title = << "1", "0", "0" >>

\* C15: a plane string of three digits without commas is read as the plane
\* of its digits, as its comma form is: "110" as (1,1,0), "210" as (2,1,0).
C15_ConcatenatedDigits ==
    (kernelInput.fn = "analysis" /\ kernelResult # NotCalled /\ kernelResult.plot # Null)
        => /\ kernelInput.zoneAxisStr = << "110" >>
                => kernelResult.plot.zoneAxis = << Num(S), Num(S), Zero >>
           /\ kernelInput.zoneAxisStr = << "210" >>
                => kernelResult.plot.zoneAxis = << Num(2 * S), Num(S), Zero >>

\* cell parameters as parseCifInfo returns them: the cubic cells of edge 1
\* and 5, the monoclinic cell 5, 6, 7, beta = 100, the cell 2, 1, 1, the
\* rhombohedral cell of edge 3 and angle 60, and the hexagonal cell 3, 3, 5
KernelCells ==
    LET CellOf(a, b, c, alpha, beta, gamma) ==
            [ a |-> Num(a * S), b |-> Num(b * S), c |-> Num(c * S),
              alpha |-> Num(alpha * S), beta |-> Num(beta * S), gamma |-> Num(gamma * S) ]
    IN  [ unit |-> CellOf(1, 1, 1, 90, 90, 90),
          cubic |-> CellOf(5, 5, 5, 90, 90, 90),
          monoclinic |-> CellOf(5, 6, 7, 90, 100, 90),
          wide |-> CellOf(2, 1, 1, 90, 90, 90),
          rhombohedral |-> CellOf(3, 3, 3, 60, 60, 60),
          hexagonal |-> CellOf(3, 3, 5, 90, 90, 120) ]

\* lines 566-572: the unit normal of the plane (h,k,l) of a cell
PlaneNormal(cell, hkl) ==
    normalizeVector(g_hkl(<< Num(hkl[1] * S), Num(hkl[2] * S), Num(hkl[3] * S) >>,
                          LatticeOf(cell).reciprocal))

RoundTripPlanes == { << 1, 0, 0 >>, << 0, 1, 1 >>, << 1, 1, 1 >>, << 2, 1, 0 >> }

\* view vectors: along axes and diagonals, opposite to a plane normal, of
\* unequal lengths, below the resolution 1/1000 of the resolver, and the zero
\* vector
ViewVectors ==
    { << FromInt(1), FromInt(1), FloatZero >>,
      << FloatZero, FloatZero, Neg(FromInt(1)) >>,
      << FromInt(-2), FromInt(-4), FloatZero >>,
      << Normal(3, -1), Normal(45, -2), Normal(6, -1) >>,
      << Normal(4, -4), FloatZero, Normal(-2, -4) >>,
      << FloatZero, FloatZero, FloatZero >> }

\* calls getMillerIndicesFromCamera(cameraEye, direct, reciprocal) with the
\* lattice of a cell: the view vectors on every cell, (0.0215, 0.007, 0) and
\* (0.0225, 0.007, 0) on the unit cell, the unit normals of the planes
ResolveInputs ==
    { [ fn |-> "resolve", cell |-> KernelCells[c], cameraEye |-> e ] :
          c \in { "unit", "cubic", "monoclinic" }, e \in ViewVectors }
    \cup { [ fn |-> "resolve", cell |-> KernelCells.unit,
             cameraEye |-> << Normal(h, -4), Normal(7, -3), FloatZero >> ] : h \in { 215, 225 } }
    \cup { [ fn |-> "resolve", cell |-> KernelCells[c], cameraEye |-> PlaneNormal(KernelCells[c], p) ] :
               c \in { "cubic", "monoclinic" }, p \in RoundTripPlanes }

\* getMillerIndicesFromCamera returns or throws
ResolveCamera ==
    /\ kernelInput.fn = "resolve"
    /\ kernelResult = NotCalled
    /\ kernelResult' = getMillerIndicesFromCamera(kernelInput.cameraEye,
                                                  LatticeOf(kernelInput.cell).direct,
                                                  LatticeOf(kernelInput.cell).reciprocal)
    /\ UNCHANGED << kernelInput, cifInfo, parseResult, appVars >>

\* C16: every triple that getMillerIndicesFromCamera returns for a finite
\* view vector is (0,0,0), or its components have no common divisor above 1
\* and the first of them that is not zero is positive.
C16_ResolvedTripleCoprime ==
    (kernelInput.fn = "resolve" /\ kernelResult # NotCalled /\ kernelResult.kind = "hkl")
        => \/ kernelResult.hkl = << 0, 0, 0 >>
           \/ /\ \A d \in 2..(Abs(kernelResult.hkl[1]) + Abs(kernelResult.hkl[2])
                               + Abs(kernelResult.hkl[3])) :
                     \E i \in 1..3 : kernelResult.hkl[i] % d # 0
              /\ \E i \in 1..3 :
                     /\ kernelResult.hkl[i] > 0
                     /\ \A j \in 1..(i - 1) : kernelResult.hkl[j] = 0

\* the factors by which a view vector is lengthened or shortened
Scales == { FromInt(2), Normal(5, -1), FromInt(1000), Normal(1, -3) }

\* s v
ScaleVector(s, v) == << Mul(s, v[1]), Mul(s, v[2]), Mul(s, v[3]) >>

\* getMillerIndicesFromCamera on the lattice of the call, for another vector
ResolvedFor(eye) ==
    getMillerIndicesFromCamera(eye, LatticeOf(kernelInput.cell).direct,
                               LatticeOf(kernelInput.cell).reciprocal)

\* C28: the triple depends on the direction of the view vector only: for a
\* view vector v and a factor s > 0, getMillerIndicesFromCamera returns for
\* s v what it returns for v.
C28_LengthOfViewIgnored ==
    (kernelInput.fn = "resolve" /\ kernelResult # NotCalled)
        => \A s \in Scales : ResolvedFor(ScaleVector(s, kernelInput.cameraEye)) = kernelResult

\* C29: looking along v and along -v resolves to the same triple.
C29_OppositeViewsSamePlane ==
    (kernelInput.fn = "resolve" /\ kernelResult # NotCalled)
        => ResolvedFor(ScaleVector(FromInt(-1), kernelInput.cameraEye)) = kernelResult

\* C17: on the cubic cell and on the monoclinic cell, the resolver handed the
\* unit normal of each of the planes (1,0,0), (0,1,1), (1,1,1), (2,1,0)
\* returns that plane.
C17_NormalResolvesToItsPlane ==
    \A c \in { KernelCells.cubic, KernelCells.monoclinic } : \A p \in RoundTripPlanes :
        (/\ kernelInput = [ fn |-> "resolve", cell |-> c, cameraEye |-> PlaneNormal(c, p) ]
         /\ kernelResult # NotCalled)
            => kernelResult = [ kind |-> "hkl", hkl |-> p ]

\* triples of direct vectors: the lattices of the unit cell and of the
\* monoclinic cell, of a cell whose angles fit no lattice (c_z is NaN) and of
\* a flat cell, and triples of whole numbers of volume 24, 1, -24 and 0
DirectVectors ==
    { LatticeOf(KernelCells[c]).direct : c \in { "unit", "monoclinic" } }
    \cup { getDirectLatticeVectors(c.cellParameters) : c \in Crystals }
    \cup { [ i \in 1..3 |-> [ j \in 1..3 |-> FromInt(m[i][j]) ] ] :
               m \in { << << 2, 0, 0 >>, << 1, 3, 0 >>, << 1, 1, 4 >> >>,
                       << << 1, 2, 3 >>, << 0, 1, 4 >>, << 5, 6, 0 >> >>,
                       << << 1, 3, 0 >>, << 2, 0, 0 >>, << 1, 1, 4 >> >>,
                       << << 1, 2, 3 >>, << 2, 4, 6 >>, << 0, 0, 1 >> >> } }

\* calls getReciprocalLatticeVectors(directLatticeVectorsCartesian)
ReciprocalInputs == { [ fn |-> "reciprocal", direct |-> d ] : d \in DirectVectors }

\* getReciprocalLatticeVectors returns
Reciprocate ==
    /\ kernelInput.fn = "reciprocal"
    /\ kernelResult = NotCalled
    /\ kernelResult' = getReciprocalLatticeVectors(kernelInput.direct)
    /\ UNCHANGED << kernelInput, cifInfo, parseResult, appVars >>

\* getReciprocalLatticeVectors was handed vectors of numbers whose volume
\* a . (b x c) is not 0, and has returned
ReciprocalOfSolidCell ==
    /\ kernelInput.fn = "reciprocal"
    /\ kernelResult # NotCalled
    /\ \A i \in 1..3 : ~HasNaN(kernelInput.direct[i])
    /\ dotProduct(kernelInput.direct[1],
                  crossProduct(kernelInput.direct[2], kernelInput.direct[3])) # FloatZero

\* the vectors (b x c) / V, (c x a) / V, (a x b) / V of the direct vectors
CrossOverVolume(direct) ==
    LET Over(v, vol) == << Div(v[1], vol), Div(v[2], vol), Div(v[3], vol) >>
        Of(vol) == << Over(crossProduct(direct[2], direct[3]), vol),
                      Over(crossProduct(direct[3], direct[1]), vol),
                      Over(crossProduct(direct[1], direct[2]), vol) >>
    IN  Of(dotProduct(direct[1], crossProduct(direct[2], direct[3])))

\* C18 as the spec words it (within floating tolerance): for direct vectors
\* of volume V other than 0, getReciprocalLatticeVectors returns (b x c) / V,
\* (c x a) / V, (a x b) / V, and a_i . a*_j differs from 1 (i = j) or 0
\* (i # j) by less than a millionth.
C18_ReciprocalIsDualBasis ==
    ReciprocalOfSolidCell
        => /\ kernelResult = CrossOverVolume(kernelInput.direct)
           /\ \A i, j \in 1..3 :
                  Sub(<< Abs(Sub(dotProduct(kernelInput.direct[i], kernelResult[j]),
                                 FromInt(IF i = j THEN 1 ELSE 0))[1]),
                         Sub(dotProduct(kernelInput.direct[i], kernelResult[j]),
                             FromInt(IF i = j THEN 1 ELSE 0))[2] >>,
                      Normal(1, -6))[1] < 0

\* the reciprocal vectors of the monoclinic cell were computed
C18_Witness ==
    /\ ReciprocalOfSolidCell
    /\ kernelInput.direct = LatticeOf(KernelCells.monoclinic).direct
    /\ kernelResult = CrossOverVolume(kernelInput.direct)
    /\ kernelResult[1][3] # FloatZero

\* C18 as the claim words it: a_i . a*_j is the number 1 when i = j and the
\* number 0 otherwise.
C18_ReciprocalIsExactlyDual ==
    ReciprocalOfSolidCell
        => \A i, j \in 1..3 :
              dotProduct(kernelInput.direct[i], kernelResult[j]) = FromInt(IF i = j THEN 1 ELSE 0)

\* lists of atom positions in quarters of the cell edges: a pair with a centre
\* of symmetry, lists without one, and a list with a position that is NaN;
\* the atoms of a list are Na, Cl, O, Na in this order
AtomLists ==
    LET Atom(pos, label) == [ x |-> pos[1], y |-> pos[2], z |-> pos[3], label |-> label ]
        List(ps) == [ i \in 1..Len(ps) |-> Atom(ps[i], << "Na", "Cl", "O", "Na" >>[i]) ]
    IN  { List(<< << Num(0), Num(0), Num(0) >>, << Num(2), Num(2), Num(2) >> >>),
          List(<< << Num(1), Num(2), Num(3) >> >>),
          List(<< << Num(0), Num(0), Num(0) >>, << Num(1), Num(0), Num(0) >>,
                  << Num(0), Num(1), Num(2) >> >>),
          List(<< << Num(1), Num(1), Num(0) >>, << Num(3), Num(0), Num(1) >>,
                  << Num(0), Num(2), Num(2) >>, << Num(1), Num(0), Num(0) >> >>),
          List(<< << Num(0), Num(0), Num(0) >>, << NaN, NaN, NaN >> >>) }

\* calls performCrystallographicAnalysis with the atom lists in the cubic cell
\* of edge 1 and in the cell 2, 1, 1
StructureInputs ==
    { [ fn |-> "analysis",
        parsedData |-> [ cellParameters |-> KernelCells[c], chemicalComponents |-> << >>,
                         atomPositions |-> atoms, spaceGroupName |-> "N/A",
                         spaceGroupNumber |-> "N/A" ],
        zoneAxisStr |-> << "1", "0", "0" >> ] : c \in { "unit", "wide" }, atoms \in AtomLists }

\* performCrystallographicAnalysis has stored the magnitudes of the planes of
\* a list of atoms whose coordinates are all numbers
StoredMagnitudes ==
    /\ kernelInput.fn = "analysis"
    /\ kernelResult # NotCalled
    /\ kernelResult.plot # Null
    /\ \A i \in 1..Len(kernelInput.parsedData.atomPositions) :
           /\ ~IsNaN(kernelInput.parsedData.atomPositions[i].x)
           /\ ~IsNaN(kernelInput.parsedData.atomPositions[i].y)
           /\ ~IsNaN(kernelInput.parsedData.atomPositions[i].z)

\* C19: for every plane (h,k,l) of the index box of the structure factors the
\* plane (-h,-k,-l) is in the box too, and the magnitudes stored for the two
\* planes are equal.
C19_FriedelPairsEqual ==
    StoredMagnitudes
        => \A f \in kernelResult.structureFactors :
              \E g \in kernelResult.structureFactors :
                 /\ g.hkl = << -f.hkl[1], -f.hkl[2], -f.hkl[3] >>
                 /\ g.magnitude = f.magnitude

\* the magnitudes of three atoms without a centre of symmetry in the cell
\* 2, 1, 1 were stored: the box reaches h = 2 and the magnitudes of (1,0,0)
\* and of (0,0,1) differ
C19_Witness ==
    /\ StoredMagnitudes
    /\ kernelInput.parsedData.cellParameters = KernelCells.wide
    /\ Len(kernelInput.parsedData.atomPositions) = 3
    /\ \E f \in kernelResult.structureFactors : f.hkl = << 2, -1, 1 >>
    /\ \E f, g \in kernelResult.structureFactors :
           /\ f.hkl = << 1, 0, 0 >>
           /\ g.hkl = << 0, 0, 1 >>
           /\ f.magnitude # g.magnitude
           /\ ~IsNaN(f.magnitude) /\ ~IsNaN(g.magnitude)

\* two numbers less than a millionth apart
Near(x, y) ==
    /\ ~IsNaN(x) /\ ~IsNaN(y)
    /\ Sub(<< Abs(Sub(x, y)[1]), Sub(x, y)[2] >>, Normal(1, -6))[1] < 0

\* two triples of vectors that agree component by component
NearVectors(u, v) == \A i, j \in 1..3 : Near(u[i][j], v[i][j])

\* the same atoms, all of one element
OfOneElement(atomPositions) ==
    [ i \in 1..Len(atomPositions) |-> [atomPositions[i] EXCEPT !.label = "H"] ]

ChartDrawn ==
    /\ kernelInput.fn = "analysis"
    /\ kernelResult # NotCalled
    /\ kernelResult.plot # Null

\* the reciprocal vectors of the call and the two axes of the projection on
\* the plane of the call, as lines 557-580 compute them
ProjectionOfCall ==
    CHOOSE projection \in
        { [ recip |-> recip, x |-> xVector(normal), y |-> yVector(normal) ] :
            recip \in { LatticeOf(kernelInput.parsedData.cellParameters).reciprocal },
            normal \in { normalizeVector(g_hkl(ZoneAxisOf(kernelInput.zoneAxisStr).zoneAxis,
                                               r)) :
                         r \in { LatticeOf(kernelInput.parsedData.cellParameters).reciprocal } } } :
        TRUE

\* the point of the chart for the plane hkl of magnitude mag
PointOf(hkl, mag, projection) ==
    [ x |-> dotProduct(gVec(hkl, projection.recip), projection.x),
      y |-> dotProduct(gVec(hkl, projection.recip), projection.y),
      label |-> << IntString(hkl[1]), IntString(hkl[2]), IntString(hkl[3]) >>,
      markerSize |->
          Add(Mul(Div(mag,
                      IF \E f \in kernelResult.structureFactors : IsNaN(f.magnitude)
                      THEN FromInt(1)
                      ELSE (CHOOSE m \in { f.magnitude : f \in kernelResult.structureFactors } :
                               \A f \in kernelResult.structureFactors : ~Less(m, f.magnitude))),
                  FromInt(10)),
              FromInt(5)) ]

\* C23: the chart has a point for the plane (h,k,l) of the index box if and
\* only if the magnitude of the plane exceeds 0.001, or the plane is (0,0,0)
\* and its magnitude exceeds 0; every point has the label, the projected
\* coordinates and the marker size of the magnitude of one and the same plane,
\* and no plane has two points.
C23_SpotsOfTheirOwnPlane ==
    ChartDrawn
        => /\ \A f \in kernelResult.structureFactors :
                 (\E i \in 1..Len(kernelResult.diffractionDataPoints) :
                        kernelResult.diffractionDataPoints[i].label
                            = << IntString(f.hkl[1]), IntString(f.hkl[2]), IntString(f.hkl[3]) >>)
                     <=> \/ Less(Normal(1, -3), f.magnitude)
                         \/ (f.hkl = << 0, 0, 0 >> /\ Less(FloatZero, f.magnitude))
           /\ \A projection \in { ProjectionOfCall } :
                 \A i \in 1..Len(kernelResult.diffractionDataPoints) :
                    \E f \in kernelResult.structureFactors :
                       /\ kernelResult.diffractionDataPoints[i].label
                              = << IntString(f.hkl[1]), IntString(f.hkl[2]),
                                   IntString(f.hkl[3]) >>
                       /\ kernelResult.diffractionDataPoints[i]
                              = PointOf(f.hkl, f.magnitude, projection)
           /\ \A i, j \in 1..Len(kernelResult.diffractionDataPoints) :
                 kernelResult.diffractionDataPoints[i].label
                     = kernelResult.diffractionDataPoints[j].label => i = j

\* the chart of the pair of atoms at (0,0,0) and (1/2,1/2,1/2) in the cell
\* 2, 1, 1 was drawn: the plane (1,0,0), whose magnitude is above 0 and below
\* 0.001, has no point, the planes (0,0,0) and (1,1,0) have one
C23_Witness ==
    /\ ChartDrawn
    /\ kernelInput.parsedData.cellParameters = KernelCells.wide
    /\ Len(kernelInput.parsedData.atomPositions) = 2
    /\ \E f \in kernelResult.structureFactors :
           /\ f.hkl = << 1, 0, 0 >>
           /\ Less(FloatZero, f.magnitude) /\ Less(f.magnitude, Normal(1, -3))
    /\ \A i \in 1..Len(kernelResult.diffractionDataPoints) :
           kernelResult.diffractionDataPoints[i].label # << "1", "0", "0" >>
    /\ \E i, j \in 1..Len(kernelResult.diffractionDataPoints) :
           /\ kernelResult.diffractionDataPoints[i].label = << "0", "0", "0" >>
           /\ kernelResult.diffractionDataPoints[j].label = << "1", "1", "0" >>
           /\ kernelResult.diffractionDataPoints[j].x # kernelResult.diffractionDataPoints[i].x
                 \/ kernelResult.diffractionDataPoints[j].y
                       # kernelResult.diffractionDataPoints[i].y

\* calls getDirectLatticeVectors(cellParameters) with every cell
DirectInputs ==
    { [ fn |-> "direct", cell |-> KernelCells[c] ] : c \in DOMAIN KernelCells }

\* getDirectLatticeVectors returns
DirectLattice ==
    /\ kernelInput.fn = "direct"
    /\ kernelResult = NotCalled
    /\ kernelResult' = getDirectLatticeVectors(kernelInput.cell)
    /\ UNCHANGED << kernelInput, cifInfo, parseResult, appVars >>

\* the vectors of the formula with every angle in radians:
\* c_y = c (cos(alpha) - cos(beta) cos(gamma)) / sin(gamma)
DirectVectorsInRadians(cell) ==
    LET c_yRad == Div(Mul(Float(cell.c),
                          Sub(CosDeg(cell.alpha), Mul(CosDeg(cell.beta), CosDeg(cell.gamma)))),
                      SinDeg(cell.gamma))
    IN  << << Float(cell.a), FloatZero, FloatZero >>,
           << Mul(Float(cell.b), CosDeg(cell.gamma)), Mul(Float(cell.b), SinDeg(cell.gamma)),
              FloatZero >>,
           << c_x(cell), c_yRad,
              Sqrt(Sub(Sub(Mul(Float(cell.c), Float(cell.c)), Mul(c_x(cell), c_x(cell))),
                       Mul(c_yRad, c_yRad))) >> >>

\* C21: getDirectLatticeVectors returns, to within a millionth, a = (a,0,0),
\* b = (b cos(gamma), b sin(gamma), 0) and c = (c cos(beta),
\* c (cos(alpha) - cos(beta) cos(gamma)) / sin(gamma), sqrt(c^2 - c_x^2 - c_y^2))
\* with every angle converted to radians before its cosine or sine is taken;
\* for a = b = c = 5 and angles of 90 the direct vectors are (5,0,0), (0,5,0),
\* (0,0,5) and the reciprocal vectors (0.2,0,0), (0,0.2,0), (0,0,0.2).
C21_DirectVectorsFromRadians ==
    (kernelInput.fn = "direct" /\ kernelResult # NotCalled)
        => /\ NearVectors(kernelResult, DirectVectorsInRadians(kernelInput.cell))
           /\ kernelInput.cell = KernelCells.cubic
                 => /\ NearVectors(kernelResult,
                                   << << FromInt(5), FloatZero, FloatZero >>,
                                      << FloatZero, FromInt(5), FloatZero >>,
                                      << FloatZero, FloatZero, FromInt(5) >> >>)
                    /\ NearVectors(getReciprocalLatticeVectors(kernelResult),
                                   << << Normal(2, -1), FloatZero, FloatZero >>,
                                      << FloatZero, Normal(2, -1), FloatZero >>,
                                      << FloatZero, FloatZero, Normal(2, -1) >> >>)

KernelInputs ==
    AnalysisInputs \cup StructureInputs \cup ResolveInputs \cup ReciprocalInputs
        \cup DirectInputs

InitKernel ==
    /\ AppInit
    /\ planeInput = << "0", "1", "1" >>
    /\ cifInfo = << >>
    /\ parseResult = NotParsed
    /\ kernelInput \in KernelInputs
    /\ kernelResult = NotCalled

NextKernel ==
    \/ AnalyzePlane
    \/ ResolveCamera
    \/ Reciprocate
    \/ DirectLattice

SpecKernel == InitKernel /\ [][NextKernel]_vars

====
